---- MODULE Spec2Model ----
(***************************************************************************)
(* Verification model of the lattice topology optimizer:                   *)
(*   model/structure.py        grid lattice, remove_node                   *)
(*   optimizer/validators.py   is_connected, has_load_paths,               *)
(*                             neighbors_stable_after_removal,             *)
(*                             can_remove_node                             *)
(*   solver/fem_solver.py      get_fixed_dofs, solve, solve_structure      *)
(*   optimizer/topology_optimizer.py  optimization_batch, run,             *)
(*                             _halving_fallback, _cleanup_dangling        *)
(*                                                                         *)
(* Numerical values are abstracted.  The result of the sparse linear       *)
(* solve (scipy) is an outcome chosen by the environment: "ok" (finite),   *)
(* "nonfinite" (NaN/inf) or "raise".  Inside one optimizer run the solve   *)
(* is a deterministic function of the lattice, so the outcome chosen for   *)
(* a lattice is remembered (okSet / badSet).  The ascending strain-energy  *)
(* ranking of the candidates is an arbitrary order chosen by the           *)
(* environment, one node at a time as a batch walks it.                    *)
(***************************************************************************)
EXTENDS Integers, Sequences, FiniteSets, TLC

\* ------------------------------------------------------------------ bounds
Width == 3
MinDim == 2
Height == MinDim
MaxSetupRemovals == 1
MaxSpecial == 2
MaxUnsolvable == 1
MaxRejected == 1
MaxBatchSize == 2
MaxFemAttempts == 1
MaxRawRemovals == 3
MaxDim == 6

\* ------------------------------------------------------- grid (structure.py)
NodeCount == Width * Height
Nodes == 0 .. (NodeCount - 1)

\* Structure._node_id of a structure of the given width.
NodeIdIn(width, x, y) == y * width + x

_node_id(x, y) == NodeIdIn(Width, x, y)

NodeX(n) == n % Width

NodeY(n) == n \div Width

\* Variant of generate_grid without the second diagonal of a cell (lines 56-58).
CellSpringsIn_one_diagonal(width, height, x, y) ==
    LET nid == NodeIdIn(width, x, y)
    IN  (IF x < width - 1 THEN << <<nid, NodeIdIn(width, x + 1, y)>> >> ELSE << >>)
        \o (IF y < height - 1 THEN << <<nid, NodeIdIn(width, x, y + 1)>> >> ELSE << >>)
        \o (IF x < width - 1 /\ y < height - 1
              THEN << <<nid, NodeIdIn(width, x + 1, y + 1)>> >> ELSE << >>)

\* The springs generate_grid appends for the node at (x, y) of a width x height
\* grid, in order (lines 44-58): right, down, down-right, and the diagonal from
\* the right neighbour to the lower neighbour.
CellSpringsIn(width, height, x, y) ==
    LET nid == NodeIdIn(width, x, y)
    IN  (IF x < width - 1 THEN << <<nid, NodeIdIn(width, x + 1, y)>> >> ELSE << >>)
        \o (IF y < height - 1 THEN << <<nid, NodeIdIn(width, x, y + 1)>> >> ELSE << >>)
        \o (IF x < width - 1 /\ y < height - 1
              THEN << <<nid, NodeIdIn(width, x + 1, y + 1)>> >> ELSE << >>)
        \o (IF x < width - 1 /\ y < height - 1
              THEN << <<NodeIdIn(width, x + 1, y), NodeIdIn(width, x, y + 1)>> >>
              ELSE << >>)

\* The loops "for y in range(height): for x in range(width)" from node n on.
RECURSIVE GridFromIn(_, _, _)
GridFromIn(width, height, n) ==
    IF n >= width * height THEN << >>
    ELSE CellSpringsIn(width, height, n % width, n \div width)
         \o GridFromIn(width, height, n + 1)

\* The springs one grid cell contributes, in the order generate_grid appends them.
CellSprings(n) == CellSpringsIn(Width, Height, NodeX(n), NodeY(n))

GridFrom(n) == GridFromIn(Width, Height, n)

generate_grid == GridFrom(0)

\* Structure.__init__(width, height): the assertions of lines 19-20, then
\* generate_grid: the nodes in row-major order and the springs, all active.
StructureInit(width, height) ==
    IF ~ (width >= MinDim /\ height >= MinDim)
    THEN [raised |-> TRUE, width |-> width, height |-> height, nodes |-> << >>,
          springs |-> << >>]
    ELSE LET pairs == GridFromIn(width, height, 0)
         IN  [raised |-> FALSE, width |-> width, height |-> height,
              nodes |-> [i \in 1 .. width * height |->
                           [id |-> NodeIdIn(width, (i - 1) % width, (i - 1) \div width),
                            x |-> (i - 1) % width, y |-> (i - 1) \div width,
                            active |-> TRUE]],
              springs |-> [i \in 1 .. Len(pairs) |->
                             [id |-> i - 1, node_a |-> pairs[i][1],
                              node_b |-> pairs[i][2], active |-> TRUE]]]

SpringCount == Len(generate_grid)
Springs == 0 .. (SpringCount - 1)

node_a(s) == generate_grid[s + 1][1]

node_b(s) == generate_grid[s + 1][2]

Incident(s, n) == node_a(s) = n \/ node_b(s) = n

Other(s, n) == IF node_a(s) = n THEN node_b(s) ELSE node_a(s)

\* The springs at each node (the scans "for sp in structure.springs" select these).
SpringsAt == [n \in Nodes |-> { s \in Springs : Incident(s, n) }]

\* get_direction_vector up to the positive factor 1/length: b.pos - a.pos.
Dir(s) == << NodeX(node_b(s)) - NodeX(node_a(s)), NodeY(node_b(s)) - NodeY(node_a(s)) >>

\* abs(ref[0]*d[1] - ref[1]*d[0]) < 1e-6 on unit vectors.  Grid directions are
\* (1,0), (0,1), (1,1)/sqrt2, (-1,1)/sqrt2: the cross product of two of them is
\* exactly 0 or at least 1/sqrt2, so the test is the integer cross product being 0.
Parallel(s, t) == Dir(s)[1] * Dir(t)[2] - Dir(s)[2] * Dir(t)[1] = 0

\* ------------------------------------------------------------------- state
VARIABLES
    activeN,      \* ids of the nodes with active = True
    activeS,      \* ids of the springs with active = True
    fix_x, fix_y, \* [Nodes -> BOOLEAN]
    loaded,       \* [Nodes -> BOOLEAN]: force_x != 0 or force_y != 0
    pc,           \* position of the caller / of run
    setupRemovals,
    startN, startS, \* lattice when run was entered
    mass_pct,     \* mass_fraction in percent
    fast_mode, use_symmetry,
    stress_ref,   \* whether run's stress_ref is not None
    target_nodes,
    consecutive_failures,
    snapshot,     \* None or [n |-> , s |-> ]
    n_active,     \* local n_active of run (stale across iterations), -1 = unbound
    okSet, badSet, \* lattices on which solve_structure returned a vector / None
    batch,        \* the running optimization_batch call, or None
    halving,      \* the running _halving_fallback call, or None
    raised,       \* an exception or assertion failure escaped
    stop_reason,  \* why run left its main loop (which break or loop test)
    calls,        \* the can_remove_node calls since the lattice was last mutated
    sv,           \* the solve_structure call in progress (position, result)
    removal,      \* the last Structure.remove_node call of client code, or None
    ret,          \* what the last optimization_batch / optimization_step call of
                  \* client code returned, or None
    max_reported_progress, \* run's max_reported_progress, the fraction last passed
                  \* to on_progress, in units of 1 / ProgressUnits
    energy_history, \* number of entries of run's energy_history
    solves,       \* number of solves of this run that returned a vector
    material,     \* name of structure.material
    force,        \* [Nodes -> <<force_x, force_y>>]
    k,            \* [Springs -> Spring.k]: "None" or the float set by hand
    file,         \* what IOHandler last wrote (to a path or as bytes), or None
    s_loaded,     \* the Structure IOHandler last returned, or None
    dims,         \* [width, height]: the arguments of Structure(width, height)
    built,        \* the object Structure(width, height) built, or None
    query         \* the last call of a validator predicate by client code, or None

None == [none |-> TRUE]

lattice == [n |-> activeN, s |-> activeS]

\* ------------------------------------------------- validators.py (pure parts)
Edges(as) == { <<node_a(s), node_b(s)>> : s \in as }

EndPoints(as) == { node_a(s) : s \in as } \cup { node_b(s) : s \in as }

\* nx.Graph: add_nodes_from(active ids) and add_edges_from(active springs) (an edge
\* adds its endpoints as nodes).
GraphNodes(an, as) == an \cup EndPoints(as)

Adj(as, v) == { Other(s, v) : s \in SpringsAt[v] \cap as }

RECURSIVE ReachFrom(_, _, _)
ReachFrom(as, banned, seen) ==
    LET next == (UNION { Adj(as, v) : v \in seen }) \ (seen \cup banned)
    IN  IF next = {} THEN seen ELSE ReachFrom(as, banned, seen \cup next)

Reach(as, v) == ReachFrom(as, {}, {v})

is_connected(an, as) ==
    IF Cardinality(an) <= 1 THEN TRUE
    ELSE LET g == GraphNodes(an, as)
             v == CHOOSE w \in g : TRUE
         IN  Reach(as, v) = g

Supports(an) == { n \in an : fix_x[n] \/ fix_y[n] }

\* Variant of has_load_paths without the test of lines 65-66.
has_load_paths_supports_unchecked(an, as) ==
    \A n \in an : loaded[n] => (Reach(as, n) \cap Supports(an)) # {}

has_load_paths(an, as) ==
    IF Supports(an) = {} THEN FALSE
    ELSE \A n \in an : loaded[n] => (Reach(as, n) \cap Supports(an)) # {}

\* directions[0] is the direction of the first remaining spring in list order.
FirstOf(ss) == CHOOSE s \in ss : \A t \in ss : s <= t

\* Variant of line 109 that skips a neighbour as soon as one of its DOFs is fixed.
neighbors_stable_after_removal_roller_skipped(an, as, node_id) ==
    LET affected == SpringsAt[node_id] \cap as
        neighbors == { Other(s, node_id) : s \in affected }
    IN  \A nid \in neighbors :
            \/ nid \notin an
            \/ fix_x[nid] \/ fix_y[nid]
            \/ LET dirs == (SpringsAt[nid] \cap as) \ affected
               IN  /\ Cardinality(dirs) >= 2
                   /\ ~ (\A d \in dirs \ {FirstOf(dirs)} : Parallel(FirstOf(dirs), d))

neighbors_stable_after_removal(an, as, node_id) ==
    LET affected == SpringsAt[node_id] \cap as
        neighbors == { Other(s, node_id) : s \in affected }
    IN  \A nid \in neighbors :
            \/ nid \notin an
            \/ fix_x[nid] /\ fix_y[nid]
            \/ LET dirs == (SpringsAt[nid] \cap as) \ affected
               IN  /\ Cardinality(dirs) >= 2
                   /\ ~ (\A d \in dirs \ {FirstOf(dirs)} : Parallel(FirstOf(dirs), d))

\* ------------------------------------------------------------ structure.py
\* Variant of remove_node whose scan tests only "spring.node_a.id == node_id".
remove_node_node_a_only(L, node_id) ==
    [n |-> L.n \ {node_id},
     s |-> L.s \ { s \in SpringsAt[node_id] : node_a(s) = node_id }]

\* Structure.remove_node: the lattice after the call (the node must be active).
remove_node(L, node_id) ==
    [n |-> L.n \ {node_id}, s |-> L.s \ SpringsAt[node_id]]

\* Structure.remove_node as client code calls it, with any integer: the assertions
\* of lines 68 and 70 fail before any flag is written.
remove_node_call(L, node_id) ==
    IF ~ (0 <= node_id /\ node_id < NodeCount) THEN [raised |-> TRUE, after |-> L]
    ELSE IF node_id \notin L.n THEN [raised |-> TRUE, after |-> L]
    ELSE [raised |-> FALSE, after |-> remove_node(L, node_id)]

\* Variant of can_remove_node that returns as soon as the speculative lattice is
\* not connected, before the restore of lines 173-175.
\* One evaluation of a validator predicate inside can_remove_node: which one, and
\* the active flags it saw.
Evaluated(fn, L) == [fn |-> fn, on |-> L]

can_remove_node_early_return(L, node_id) ==
    IF node_id \notin L.n
    THEN [result |-> FALSE, raised |-> TRUE, after |-> L, evaluated |-> << >>]
    ELSE IF ~ neighbors_stable_after_removal(L.n, L.s, node_id)
    THEN [result |-> FALSE, raised |-> FALSE, after |-> L,
          evaluated |-> << Evaluated("neighbors_stable_after_removal", L) >>]
    ELSE LET specN == L.n \ {node_id}
             specS == L.s \ SpringsAt[node_id]
             spec == [n |-> specN, s |-> specS]
         IN  IF ~ is_connected(specN, specS)
             THEN [result |-> FALSE, raised |-> FALSE, after |-> spec,
                   evaluated |-> << Evaluated("neighbors_stable_after_removal", L),
                                    Evaluated("is_connected", spec) >>]
             ELSE [result |-> has_load_paths(specN, specS), raised |-> FALSE, after |-> L,
                   evaluated |-> << Evaluated("neighbors_stable_after_removal", L),
                                    Evaluated("is_connected", spec),
                                    Evaluated("has_load_paths", spec) >>]

\* Variant of can_remove_node that restores the node (line 173) but not the
\* affected springs (lines 174-175).
can_remove_node_springs_left(L, node_id) ==
    IF node_id \notin L.n
    THEN [result |-> FALSE, raised |-> TRUE, after |-> L, evaluated |-> << >>]
    ELSE IF ~ neighbors_stable_after_removal(L.n, L.s, node_id)
    THEN [result |-> FALSE, raised |-> FALSE, after |-> L,
          evaluated |-> << Evaluated("neighbors_stable_after_removal", L) >>]
    ELSE LET specN == L.n \ {node_id}
             specS == L.s \ SpringsAt[node_id]
             spec == [n |-> specN, s |-> specS]
             connected == is_connected(specN, specS)
         IN  [result |-> connected /\ has_load_paths(specN, specS), raised |-> FALSE,
              after  |-> [n |-> specN \cup {node_id}, s |-> specS],
              evaluated |-> << Evaluated("neighbors_stable_after_removal", L),
                               Evaluated("is_connected", spec) >>
                            \o (IF connected THEN << Evaluated("has_load_paths", spec) >>
                                ELSE << >>)]

\* Variant of line 171 that evaluates has_load_paths whether or not the
\* speculative state is connected.
can_remove_node_load_paths_always(L, node_id) ==
    IF node_id \notin L.n
    THEN [result |-> FALSE, raised |-> TRUE, after |-> L, evaluated |-> << >>]
    ELSE IF ~ neighbors_stable_after_removal(L.n, L.s, node_id)
    THEN [result |-> FALSE, raised |-> FALSE, after |-> L,
          evaluated |-> << Evaluated("neighbors_stable_after_removal", L) >>]
    ELSE LET affected == SpringsAt[node_id] \cap L.s
             specN == L.n \ {node_id}
             specS == L.s \ affected
             spec == [n |-> specN, s |-> specS]
             connected == is_connected(specN, specS)
             load_paths_ok == has_load_paths(specN, specS)
         IN  [result |-> connected /\ load_paths_ok, raised |-> FALSE,
              after  |-> [n |-> specN \cup {node_id}, s |-> specS \cup affected],
              evaluated |-> << Evaluated("neighbors_stable_after_removal", L),
                               Evaluated("is_connected", spec),
                               Evaluated("has_load_paths", spec) >>]

\* StructureValidator.can_remove_node(structure, node_id): the answer (raised when
\* the assertion of line 158 fails), and the lattice it leaves (line 161: early
\* return; 163-168: speculative deactivation of the node and of its active
\* springs; 173-175: restore of the node and of exactly those springs).
can_remove_node(L, node_id) ==
    IF node_id \notin L.n
    THEN [result |-> FALSE, raised |-> TRUE, after |-> L, evaluated |-> << >>]
    ELSE IF ~ neighbors_stable_after_removal(L.n, L.s, node_id)
    THEN [result |-> FALSE, raised |-> FALSE, after |-> L,
          evaluated |-> << Evaluated("neighbors_stable_after_removal", L) >>]
    ELSE LET affected == SpringsAt[node_id] \cap L.s
             specN == L.n \ {node_id}
             specS == L.s \ affected
             spec == [n |-> specN, s |-> specS]
             connected == is_connected(specN, specS)
             load_paths_ok == IF connected THEN has_load_paths(specN, specS) ELSE FALSE
         IN  [result |-> connected /\ load_paths_ok, raised |-> FALSE,
              after  |-> [n |-> specN \cup {node_id}, s |-> specS \cup affected],
              evaluated |-> << Evaluated("neighbors_stable_after_removal", L),
                               Evaluated("is_connected", spec) >>
                            \o (IF connected THEN << Evaluated("has_load_paths", spec) >>
                                ELSE << >>)]

\* nx.articulation_points(G): the vertices whose removal separates two of their
\* neighbours.
articulation_points(an, as) ==
    { v \in GraphNodes(an, as) :
        \E a \in Adj(as, v) : \E b \in Adj(as, v) :
            b \notin ReachFrom(as, {v}, {a}) }

\* ------------------------------------------------------------ fem_solver.py
DofX(n) == 2 * n

DofY(n) == 2 * n + 1

Dofs == 0 .. (2 * NodeCount - 1)

\* Numbers a + b * sqrt(2) with integers a, b, written << a, b >>.
Plus(p, q) == << p[1] + q[1], p[2] + q[2] >>

Times(n, p) == << n * p[1], n * p[2] >>

\* Material.E of the standard materials (material.py 37-39).
ModulusOf(name) ==
    IF name = "Stahl" THEN 210 ELSE IF name = "Aluminium" THEN 70 ELSE 12

\* Spring.get_stiffness, doubled: the stiffness set by hand, else 1.0 for a
\* horizontal or vertical spring and 1/sqrt(2) = sqrt(2)/2 for a diagonal one.
get_stiffness(s) ==
    IF k[s] # "None" THEN << 5, 0 >>
    ELSE IF Dir(s)[1] # 0 /\ Dir(s)[2] # 0 THEN << 0, 1 >>
    ELSE << 2, 0 >>

\* K = k * [[1, -1], [-1, 1]] without the factor k.
K_local(p, q) == IF p = q THEN 1 ELSE 0 - 1

\* O = np.outer(e_n, e_n), doubled: e_n is Dir(s) over its length, and the squared
\* length is 1 or 2.
OuterOf(s, p, q) ==
    (Dir(s)[p + 1] * Dir(s)[q + 1] * 2) \div (Dir(s)[1] * Dir(s)[1] + Dir(s)[2] * Dir(s)[2])

\* np.kron(K, O)[i, j] = K[i // 2, j // 2] * O[i % 2, j % 2], without the factor k
\* and doubled.
KronOf(s, i, j) == K_local(i \div 2, j \div 2) * OuterOf(s, i % 2, j % 2)

\* dofs = [2 * i, 2 * i + 1, 2 * j, 2 * j + 1]
SpringDofs(s) == << 2 * node_a(s), 2 * node_a(s) + 1, 2 * node_b(s), 2 * node_b(s) + 1 >>

\* Variant of lines 36-40 that appends only the entries with c >= r.
Triplets_upper(s, dr, dc) ==
    { ij \in (0 .. 3) \X (0 .. 3) :
        /\ ij[2] >= ij[1]
        /\ SpringDofs(s)[ij[1] + 1] = dr
        /\ SpringDofs(s)[ij[2] + 1] = dc }

\* Lines 36-40: the triplets (dr, dc, Ko[r, c]) spring s appends for entry
\* (dr, dc), as the pairs (r, c).
Triplets(s, dr, dc) ==
    { ij \in (0 .. 3) \X (0 .. 3) :
        /\ SpringDofs(s)[ij[1] + 1] = dr
        /\ SpringDofs(s)[ij[2] + 1] = dc }

\* What spring s appends for entry (dr, dc), without the factors k and E_factor.
\* The DOFs of a spring are distinct, so it appends at most one value for an entry.
Appended ==
    [s \in Springs |-> [dr \in Dofs |-> [dc \in Dofs |->
        IF Triplets(s, dr, dc) = {} THEN 0
        ELSE LET ij == CHOOSE e \in Triplets(s, dr, dc) : TRUE
             IN  KronOf(s, ij[1], ij[2])]]]

\* vals.append(Ko[r, c]) with Ko = spring.get_stiffness_matrix() * E_factor and
\* E_factor = structure.material.E / 210.0, in units of 1/840.
Ko(s, dr, dc) == Times(ModulusOf(material) * Appended[s][dr][dc], get_stiffness(s))

\* The sum csr_matrix forms of the values appended for entry (dr, dc) by the
\* active springs from s on.
RECURSIVE EntryFrom(_, _, _, _)
EntryFrom(as, s, dr, dc) ==
    IF s >= SpringCount THEN << 0, 0 >>
    ELSE Plus(IF s \in as THEN Ko(s, dr, dc) ELSE << 0, 0 >>,
              EntryFrom(as, s + 1, dr, dc))

\* assemble_global_K: the matrix of size 2N x 2N (all zero when no spring is
\* active, line 42-43).
assemble_global_K(as) == [dr \in Dofs |-> [dc \in Dofs |-> EntryFrom(as, 0, dr, dc)]]

\* Variant of get_fixed_dofs without the branch of lines 86-88 for inactive nodes.
get_fixed_dofs_active_only(an) ==
    { DofX(n) : n \in { m \in an : fix_x[m] } }
    \cup { DofY(n) : n \in { m \in an : fix_y[m] } }

\* get_fixed_dofs: both DOFs of every inactive node, and the fixed DOFs of the
\* active ones.
get_fixed_dofs(an) ==
    { DofX(n) : n \in Nodes \ an } \cup { DofY(n) : n \in Nodes \ an }
    \cup { DofX(n) : n \in { m \in an : fix_x[m] } }
    \cup { DofY(n) : n \in { m \in an : fix_y[m] } }

FreeDofs(an) == Dofs \ get_fixed_dofs(an)

\* solve_structure as the optimizer sees it: "assert" (line 173), "ok" (a vector) or
\* "none".  No free DOF: solve returns zeros (line 129).  Otherwise the outcome for a
\* lattice is the one already observed, or a new choice of the environment, which
\* declares at most limit lattices unsolvable.
SolveOutcomesWithin(L, limit) ==
    IF get_fixed_dofs(L.n) = {} THEN {"assert"}
    ELSE IF FreeDofs(L.n) = {} THEN {"ok"}
    ELSE IF L \in okSet THEN {"ok"}
    ELSE IF L \in badSet THEN {"none"}
    ELSE IF Cardinality(badSet) >= limit THEN {"ok"}
    ELSE {"ok", "none"}

\* The solves of run and _halving_fallback.
SolveOutcomes(L) == SolveOutcomesWithin(L, MaxUnsolvable)

\* The solve that validates one removal (line 316).
ValidationOutcomes(L) == SolveOutcomesWithin(L, MaxUnsolvable + MaxRejected)

OkAfter(L, r) == IF r = "ok" THEN okSet \cup {L} ELSE okSet

BadAfter(L, r) == IF r = "none" THEN badSet \cup {L} ELSE badSet

\* ---------------------------------------------------- topology_optimizer.py
Free(n) == ~ fix_x[n] /\ ~ fix_y[n]

\* Variant without the support and load filter of lines 114-117.
compute_node_energies_unfiltered(L) == L.n

\* Variant without the test "if not node.active" of lines 113-114.
compute_node_energies_inactive_kept(L) == { n \in Nodes : Free(n) /\ ~ loaded[n] }

\* Keys of compute_node_energies: active, free, unloaded nodes.
compute_node_energies(L) == { n \in L.n : Free(n) /\ ~ loaded[n] }

Degree(as, n) == Cardinality(SpringsAt[n] \cap as)

\* Variant of _restore_snapshot that leaves the flags as they are.
_restore_snapshot_skipped(snap) == lattice

_restore_snapshot(snap) == [n |-> snap.n, s |-> snap.s]

\* Variant of _restore_node without the test "if other.active" of line 195.
_restore_node_all_springs(L, node_id) ==
    [n |-> L.n \cup {node_id}, s |-> L.s \cup SpringsAt[node_id]]

\* Variant of _restore_node without the loop over the springs (lines 191-196).
_restore_node_no_springs(L, node_id) == [n |-> L.n \cup {node_id}, s |-> L.s]

_restore_node(L, node_id) ==
    LET an == L.n \cup {node_id}
    IN  [n |-> an,
         s |-> L.s \cup { s \in SpringsAt[node_id] : Other(s, node_id) \in an }]

Mirror(n) == NodeY(n) * Width + (Width - 1 - NodeX(n))

\* One pass of _cleanup_dangling: degree is computed once at the start of the pass.
CleanupPass(L) ==
    LET dangling == { n \in L.n : Free(n) /\ ~ loaded[n] /\ Degree(L.s, n) <= 1 }
    IN  [n |-> L.n \ dangling,
         s |-> L.s \ UNION { SpringsAt[d] : d \in dangling }]

RECURSIVE CleanupFrom(_, _)
CleanupFrom(L, M) == IF M = L THEN L ELSE CleanupFrom(M, CleanupPass(M))

\* _cleanup_dangling with the outer while loop left after its first pass.
_cleanup_dangling_one_pass(L) == CleanupPass(L)

_cleanup_dangling(L) == CleanupFrom(L, CleanupPass(L))

Max(a, b) == IF a >= b THEN a ELSE b

Min(a, b) == IF a <= b THEN a ELSE b

\* int(n_active * frac) with frac = permille / 1000.
FracOf(n, permille) == (n * permille) \div 1000

\* progress = min(removed_so_far / nodes_to_remove, 1.0) if nodes_to_remove > 0 else
\* 1.0, compared with a threshold given in percent.
ProgressBelow(removed_so_far, nodes_to_remove, pct) ==
    /\ nodes_to_remove > 0
    /\ removed_so_far < nodes_to_remove
    /\ removed_so_far * 100 < pct * nodes_to_remove

_adaptive_batch_size(removed_so_far, nodes_to_remove, n) ==
    IF ProgressBelow(removed_so_far, nodes_to_remove, 30) THEN Max(1, FracOf(n, 20))
    ELSE IF ProgressBelow(removed_so_far, nodes_to_remove, 60) THEN Max(1, FracOf(n, 10))
    ELSE IF ProgressBelow(removed_so_far, nodes_to_remove, 85) THEN Max(1, FracOf(n, 2))
    ELSE 1

FastBatchSize(removed_so_far, nodes_to_remove, n) ==
    IF ProgressBelow(removed_so_far, nodes_to_remove, 50) THEN Min(30, Max(1, FracOf(n, 30)))
    ELSE IF ProgressBelow(removed_so_far, nodes_to_remove, 80) THEN Min(30, Max(1, FracOf(n, 15)))
    ELSE Min(30, Max(1, FracOf(n, 5)))

\* target_nodes = max(2, int(total_nodes * mass_fraction))
TargetNodes(pct) == Max(2, (NodeCount * pct) \div 100)

\* Progress fractions are counted in units of 1 / nodes_to_remove (1.0 is one unit
\* when nodes_to_remove = 0).
ProgressUnits(target) == Max(1, NodeCount - target)

\* progress = min(removed_so_far / nodes_to_remove, 1.0) if nodes_to_remove > 0 else
\* 1.0, with removed_so_far = total_nodes - n.
Progress(n, target) ==
    IF NodeCount - target > 0 THEN Min(NodeCount - n, NodeCount - target)
    ELSE ProgressUnits(target)

\* Variant of lines 438-440 that passes progress itself to on_progress.
ReportedProgress_unclamped(reported, n, target) == Progress(n, target)

\* Lines 438-440, 453-455, 503-505: the fraction passed to on_progress.
ReportedProgress(reported, n, target) == Max(reported, Progress(n, target))

\* ------------------------------------------------------------------ actions
vars == << activeN, activeS, fix_x, fix_y, loaded, pc, setupRemovals, startN, startS,
           mass_pct, fast_mode, use_symmetry, stress_ref, target_nodes,
           consecutive_failures, snapshot, n_active, okSet, badSet, batch,
           halving, raised, stop_reason, calls, sv, removal, ret,
           max_reported_progress, energy_history, solves, material, force, k, file,
           s_loaded, dims, built, query >>

bcVars == << fix_x, fix_y, loaded >>

\* What only the calls of the constructor and of the validator predicates by
\* client code change.
pureVars == << dims, built, query >>

\* What only calls of client code outside run change.
ioVars == << material, force, k, file, s_loaded >>

apiVars == << removal, ret, ioVars >>

\* What run reports: progress and energy history.
histVars == << max_reported_progress, energy_history, solves >>

callVars == << calls, sv >>

paramVars == << startN, startS, mass_pct, fast_mode, use_symmetry, stress_ref,
                target_nodes >>

MassPercents == {25, 50}

\* Boundary conditions of a node: free, pinned (fix_x and fix_y), roller (fix_y
\* only) or loaded.  Supports are placed on the left edge and loads on the right
\* edge of the grid, at most MaxSpecial of them in all.
Roles == {"free", "pin", "rolly", "load"}

SupportNodes == { n \in Nodes : NodeX(n) = 0 }

LoadNodes == { n \in Nodes : NodeX(n) = Width - 1 }

RoleMaps ==
    { r \in [Nodes -> Roles] :
        /\ Cardinality({ n \in Nodes : r[n] # "free" }) <= MaxSpecial
        /\ \A n \in Nodes : r[n] \in {"pin", "rolly"} => n \in SupportNodes
        /\ \A n \in Nodes : r[n] = "load" => n \in LoadNodes }

\* solve_structure has not been called.
Idle ==
    [pc |-> "idle", assembled |-> << >>, fixed |-> {}, direct |-> "none", retry |-> "none",
     retries |-> 0,
     ret |-> "pending", u |-> [d \in Dofs |-> 0]]

\* Material.defaults(): the names of the standard materials, in order.
defaults == << "Stahl", "Aluminium", "Holz (Fichte)" >>

\* A unit load downwards on every loaded node.
UnitLoads == [n \in Nodes |-> IF loaded[n] THEN << 0, 0 - 1 >> ELSE << 0, 0 >>]

\* Structure.__init__: every node and spring active; no optimizer call yet.
Unconfigured ==
    /\ activeN = Nodes
    /\ activeS = Springs
    /\ setupRemovals = 0
    /\ startN = {}
    /\ startS = {}
    /\ mass_pct = 0
    /\ fast_mode = FALSE
    /\ use_symmetry = FALSE
    /\ stress_ref = FALSE
    /\ target_nodes = 0
    /\ consecutive_failures = 0
    /\ snapshot = None
    /\ n_active = -1
    /\ okSet = {}
    /\ badSet = {}
    /\ batch = None
    /\ halving = None
    /\ raised = FALSE
    /\ stop_reason = "none"
    /\ calls = << >>
    /\ sv = Idle
    /\ removal = None
    /\ ret = None
    /\ max_reported_progress = 0
    /\ energy_history = 0
    /\ solves = 0
    /\ file = None
    /\ s_loaded = None

\* The caller sets the supports and loads of the roles r.
Configured(r) ==
    /\ fix_x = [n \in Nodes |-> r[n] = "pin"]
    /\ fix_y = [n \in Nodes |-> r[n] \in {"pin", "rolly"}]
    /\ loaded = [n \in Nodes |-> r[n] = "load"]

\* Structure.__init__, then the caller sets supports and loads.
Constructed == Unconfigured /\ \E r \in RoleMaps : Configured(r)

\* Material, loads and stiffnesses as Structure(width, height) leaves them: the
\* default material, unit loads and no spring stiffness set by hand.
Defaults ==
    /\ material = defaults[1]
    /\ force = UnitLoads
    /\ k = [s \in Springs |-> "None"]
    /\ dims = [width |-> Width, height |-> Height]
    /\ built = None
    /\ query = None

\* Structure(width, height) with the default material, unit loads and no spring
\* stiffness set by hand.
Fresh == Constructed /\ Defaults

Init == Fresh /\ pc = "setup"

\* app.py 118-123: the user removes a free, unloaded node if can_remove_node allows.
SetupRemove(node_id) ==
    /\ pc = "setup"
    /\ setupRemovals < MaxSetupRemovals
    /\ node_id \in activeN
    /\ Free(node_id) /\ ~ loaded[node_id]
    /\ \E c \in {can_remove_node(lattice, node_id)} :
       \E L \in {remove_node(c.after, node_id)} :
           /\ c.result
           /\ activeN' = L.n
           /\ activeS' = L.s
    /\ setupRemovals' = setupRemovals + 1
    /\ UNCHANGED << stop_reason, bcVars, pureVars, apiVars, histVars, callVars, pc, paramVars, consecutive_failures, snapshot, n_active,
                    okSet, badSet, batch, halving, raised >>

\* run, lines 395-417: parameters, target, optional reference solve for the stress
\* guard (stress_ref is set only if that solve succeeds and a spring is active).
StartRun(pct, fast, sym, limit) ==
    /\ pc = "setup"
    /\ startN' = activeN
    /\ startS' = activeS
    /\ mass_pct' = pct
    /\ fast_mode' = fast
    /\ use_symmetry' = sym
    /\ target_nodes' = TargetNodes(pct)
    /\ consecutive_failures' = 0
    /\ snapshot' = None
    /\ IF limit
       THEN \E r \in SolveOutcomes(lattice) :
              /\ okSet' = OkAfter(lattice, r)
              /\ badSet' = BadAfter(lattice, r)
              /\ stress_ref' = (r = "ok" /\ activeS # {})
              /\ solves' = IF r = "ok" THEN 1 ELSE 0
              /\ raised' = (r = "assert")
              /\ pc' = IF r = "assert" THEN "raised" ELSE "loop"
       ELSE /\ stress_ref' = FALSE
            /\ pc' = "loop"
            /\ solves' = 0
            /\ UNCHANGED << okSet, badSet, raised >>
    /\ max_reported_progress' = 0
    /\ energy_history' = 0
    /\ UNCHANGED << stop_reason, activeN, activeS, bcVars, pureVars, apiVars, callVars, setupRemovals, n_active, batch,
                    halving >>

\* A fresh optimization_batch call on lattice L (lines 238-262).
NewBatch(kind, L, size, validate, fast, sym) ==
    [kind |-> kind, n0 |-> L.n, s0 |-> L.s, batch_size |-> size,
     validate_fem |-> validate, fast_mode |-> fast, use_symmetry |-> sym,
     max_fem_attempts |-> 0, removed |-> 0, fem_attempts |-> 0, processed |-> {},
     protected |-> IF fast THEN articulation_points(L.n, L.s) ELSE {},
     visited |-> {}, stopped |-> FALSE]

MaxFailures == 3
HalvingBatch == 20
HalvingAttempts == 6

\* _halving_fallback 539-540 called on lattice L: the first batch size and the
\* snapshot.
NewHalving(L, remaining, fast) ==
    [remaining |-> remaining, fast_mode |-> fast,
     batch_size |-> Min(HalvingBatch, remaining), attempt |-> 0, snap |-> L]

Count == Cardinality(activeN)

LoopGuard == pc = "loop" /\ Count > target_nodes

Raise ==
    /\ raised' = TRUE
    /\ pc' = "raised"

\* Variant of the while test of line 419 that stops one node early.
LoopExit_one_early ==
    /\ pc = "loop"
    /\ Count <= target_nodes + 1
    /\ pc' = "final"
    /\ stop_reason' = "target"
    /\ UNCHANGED << activeN, activeS, bcVars, pureVars, apiVars, histVars, callVars, setupRemovals, paramVars,
                    consecutive_failures, snapshot, n_active, okSet, badSet,
                    batch, halving, raised >>

\* run 419: the while condition fails.
LoopExit ==
    /\ pc = "loop"
    /\ Count <= target_nodes
    /\ pc' = "final"
    /\ stop_reason' = "target"
    /\ UNCHANGED << activeN, activeS, bcVars, pureVars, apiVars, histVars, callVars, setupRemovals, paramVars,
                    consecutive_failures, snapshot, n_active, okSet, badSet,
                    batch, halving, raised >>

\* run 420 with solve_structure 173: no fixed DOF at all, the assertion fails.
IterateAssert ==
    /\ LoopGuard
    /\ "assert" \in SolveOutcomes(lattice)
    /\ Raise
    /\ UNCHANGED << stop_reason, activeN, activeS, bcVars, pureVars, apiVars, histVars, callVars, setupRemovals, paramVars,
                    consecutive_failures, snapshot, n_active, okSet, badSet,
                    batch, halving >>

\* run 420-424: unsolvable and no snapshot to roll back to.
SolveFailStop ==
    /\ LoopGuard
    /\ "none" \in SolveOutcomes(lattice)
    /\ snapshot = None
    /\ badSet' = BadAfter(lattice, "none")
    /\ pc' = "final"
    /\ stop_reason' = "unsolvable"
    /\ UNCHANGED << activeN, activeS, bcVars, pureVars, apiVars, histVars, callVars, setupRemovals, paramVars,
                    consecutive_failures, snapshot, n_active, okSet, batch,
                    halving, raised >>

\* Variant of lines 425 and 442-446 that starts the fallback removal on the lattice
\* the batch left, without restoring the snapshot.
SolveFailFallback_unrestored ==
    /\ LoopGuard
    /\ "none" \in SolveOutcomes(lattice)
    /\ snapshot # None
    /\ ~ fast_mode
    /\ badSet' = BadAfter(lattice, "none")
    /\ batch' = NewBatch("fallback", lattice, 1, TRUE, FALSE, use_symmetry)
    /\ snapshot' = None
    /\ pc' = "batch"
    /\ UNCHANGED << stop_reason, activeN, activeS, bcVars, pureVars, apiVars, histVars, callVars, setupRemovals, paramVars, consecutive_failures,
                    n_active, okSet, halving, raised >>

\* run 420-425, 442-446: unsolvable, standard mode: restore the snapshot and start
\* one FEM-validated removal on it with snapshot_u.
SolveFailFallback ==
    /\ LoopGuard
    /\ "none" \in SolveOutcomes(lattice)
    /\ snapshot # None
    /\ ~ fast_mode
    /\ badSet' = BadAfter(lattice, "none")
    /\ activeN' = _restore_snapshot(snapshot).n
    /\ activeS' = _restore_snapshot(snapshot).s
    /\ batch' = NewBatch("fallback", _restore_snapshot(snapshot), 1, TRUE, FALSE, use_symmetry)
    /\ snapshot' = None
    /\ pc' = "batch"
    /\ UNCHANGED << stop_reason, bcVars, pureVars, apiVars, histVars, callVars, setupRemovals, paramVars, consecutive_failures,
                    n_active, okSet, halving, raised >>

\* run 420-431 and _halving_fallback 539-545: unsolvable, fast mode: restore the
\* snapshot and start the halving search with remaining = n_active - target_nodes.
SolveFailHalving ==
    /\ LoopGuard
    /\ "none" \in SolveOutcomes(lattice)
    /\ snapshot # None
    /\ fast_mode
    /\ badSet' = BadAfter(lattice, "none")
    /\ activeN' = _restore_snapshot(snapshot).n
    /\ activeS' = _restore_snapshot(snapshot).s
    /\ halving' = NewHalving(_restore_snapshot(snapshot), n_active - target_nodes, TRUE)
    /\ batch' = NewBatch("halving", _restore_snapshot(snapshot),
                         Min(HalvingBatch, n_active - target_nodes), FALSE, TRUE, FALSE)
    /\ snapshot' = None
    /\ pc' = "batch"
    /\ UNCHANGED << stop_reason, bcVars, pureVars, apiVars, histVars, callVars, setupRemovals, paramVars, consecutive_failures,
                    n_active, okSet, raised >>

\* Variant of lines 458-466 that tests the stress guard after the energy history
\* was appended.
StressStop_after_history ==
    /\ LoopGuard
    /\ "ok" \in SolveOutcomes(lattice)
    /\ stress_ref
    /\ activeS # {}
    /\ okSet' = OkAfter(lattice, "ok")
    /\ pc' = "final"
    /\ stop_reason' = "stress"
    /\ solves' = solves + 1
    /\ energy_history' = energy_history + 1
    /\ UNCHANGED << activeN, activeS, bcVars, pureVars, apiVars, max_reported_progress, callVars, setupRemovals, paramVars,
                    consecutive_failures, snapshot, n_active, badSet, batch,
                    halving, raised >>

\* run 458-463: the stress guard stops the loop (the ratio itself is numerical: the
\* environment decides whether it exceeds the limit).
StressStop ==
    /\ LoopGuard
    /\ "ok" \in SolveOutcomes(lattice)
    /\ stress_ref
    /\ activeS # {}
    /\ okSet' = OkAfter(lattice, "ok")
    /\ pc' = "final"
    /\ stop_reason' = "stress"
    /\ solves' = solves + 1
    /\ UNCHANGED << activeN, activeS, bcVars, pureVars, apiVars, max_reported_progress, energy_history, callVars, setupRemovals, paramVars,
                    consecutive_failures, snapshot, n_active, badSet, batch,
                    halving, raised >>

\* run 465-490: solved; batch size, snapshot, start of the batch.  From here on
\* the run only visits sub-lattices of this one, so the earlier solve results are
\* dropped from okSet.
StartMainBatch ==
    /\ LoopGuard
    /\ "ok" \in SolveOutcomes(lattice)
    /\ okSet' = {lattice}
    /\ n_active' = Count
    /\ LET removed_so_far == NodeCount - Count
           nodes_to_remove == NodeCount - target_nodes
           size == IF fast_mode
                   THEN FastBatchSize(removed_so_far, nodes_to_remove, Count)
                   ELSE _adaptive_batch_size(removed_so_far, nodes_to_remove, Count)
       IN  batch' = NewBatch("main", lattice, Min(size, Count - target_nodes), FALSE,
                             fast_mode, use_symmetry)
    /\ snapshot' = lattice
    /\ pc' = "batch"
    /\ solves' = solves + 1
    /\ energy_history' = energy_history + 1
    /\ UNCHANGED << stop_reason, activeN, activeS, bcVars, pureVars, apiVars, max_reported_progress, callVars, setupRemovals, paramVars,
                    consecutive_failures, badSet, halving, raised >>

Range(f) == { f[i] : i \in DOMAIN f }

NoNode == -1

\* Variant of the removal checks that accepts every candidate.
RemovalCheck_accept_all(b, L, node_id) == [result |-> TRUE, after |-> L]

\* The check optimization_batch applies to a node on lattice L (lines 270-281 and
\* 301-307): fast mode, leaf (degree at the start of the batch) or full check.
RemovalCheck(b, L, node_id) ==
    IF b.fast_mode
    THEN [result |-> /\ node_id \notin b.protected
                     /\ neighbors_stable_after_removal(L.n, L.s, node_id),
          after |-> L]
    ELSE IF Degree(b.s0, node_id) <= 1
    THEN [result |-> neighbors_stable_after_removal(L.n, L.s, node_id), after |-> L]
    ELSE can_remove_node(L, node_id)

\* Lines 286-295: the mirror node to remove together with node_id, or NoNode.
MirrorCandidate(b, L, node_id) ==
    LET m_id == Mirror(node_id)
    IN  IF /\ b.use_symmetry
           /\ m_id # node_id
           /\ m_id \notin b.processed
           /\ m_id \in L.n
           /\ Free(m_id) /\ ~ loaded[m_id]
        THEN m_id ELSE NoNode

\* Lines 297-312: remove node_id and, if it passes its own check on the lattice
\* without node_id, its mirror.
\* Variant of lines 308-312 that removes the mirror node whatever its check says.
MirrorOutcome_unchecked(mc, m0) == [L |-> remove_node(mc.after, m0), mirror_id |-> m0]

MirrorOutcome(mc, m0) ==
    IF mc.result THEN [L |-> remove_node(mc.after, m0), mirror_id |-> m0]
    ELSE [L |-> mc.after, mirror_id |-> NoNode]

RemoveWithMirror(b, L, node_id) ==
    IF MirrorCandidate(b, L, node_id) = NoNode
    THEN [L |-> remove_node(L, node_id), mirror_id |-> NoNode]
    ELSE MirrorOutcome(RemovalCheck(b, remove_node(L, node_id), MirrorCandidate(b, L, node_id)),
                       MirrorCandidate(b, L, node_id))

\* Variant of lines 317-321 that restores the geometric mirror m_id whether or not
\* it was removed with the node.
UndoRemoval_mirror_always(L, node_id, mirror_id) ==
    _restore_node(_restore_node(L, node_id), Mirror(node_id))

\* Variant of lines 317-321 that restores the node and leaves its mirror removed.
UndoRemoval_node_only(L, node_id, mirror_id) == _restore_node(L, node_id)

\* Lines 317-321: undo of a removal whose validation solve failed.
UndoRemoval(L, node_id, mirror_id) ==
    IF mirror_id = NoNode THEN _restore_node(L, node_id)
    ELSE _restore_node(_restore_node(L, node_id), mirror_id)

Candidates(b) == compute_node_energies([n |-> b.n0, s |-> b.s0])

\* The nodes the walk over sorted_nodes can visit next: the energies are numerical,
\* so the order of the candidates is chosen by the environment.
NextNodes(b) == Candidates(b) \ b.visited

WalkDone(b) == b.removed >= b.batch_size \/ b.stopped \/ NextNodes(b) = {}

\* Variant of lines 326-328 without the second increment for the mirror node.
AfterRemoval_mirror_uncounted(b, node_id, rm, r) ==
    LET gone == IF rm.mirror_id = NoNode THEN {node_id} ELSE {node_id, rm.mirror_id}
    IN  IF r = "none"
        THEN [b |-> [b EXCEPT !.fem_attempts = @ + 1,
                              !.stopped = (0 < b.max_fem_attempts
                                           /\ b.max_fem_attempts <= b.fem_attempts + 1)],
              L |-> UndoRemoval(rm.L, node_id, rm.mirror_id)]
        ELSE [b |-> [b EXCEPT !.processed = @ \cup gone,
                              !.removed = @ + 1,
                              !.fem_attempts = IF r = "ok" THEN @ + 1 ELSE @],
              L |-> rm.L]

\* Line 314-328 for a removal rm = [L, mirror_id] of node_id under solve outcome r
\* ("skipped" without validate_fem): the batch record and the lattice afterwards.
AfterRemoval(b, node_id, rm, r) ==
    LET gone == IF rm.mirror_id = NoNode THEN {node_id} ELSE {node_id, rm.mirror_id}
    IN  IF r = "none"
        THEN [b |-> [b EXCEPT !.fem_attempts = @ + 1,
                              !.stopped = (0 < b.max_fem_attempts
                                           /\ b.max_fem_attempts <= b.fem_attempts + 1)],
              L |-> UndoRemoval(rm.L, node_id, rm.mirror_id)]
        ELSE [b |-> [b EXCEPT !.processed = @ \cup gone,
                              !.removed = @ + Cardinality(gone),
                              !.fem_attempts = IF r = "ok" THEN @ + 1 ELSE @],
              L |-> rm.L]

\* What one iteration over sorted_nodes does with node_id before any removal:
\* "skip" (267-272), "raise" (an assertion of can_remove_node or remove_node fails),
\* "reject" (283-284) or "remove".
VisitKind(b, L, node_id, chk) ==
    IF node_id \in b.processed \/ (b.fast_mode /\ node_id \in b.protected) THEN "skip"
    ELSE IF node_id \notin L.n /\ ~ b.fast_mode /\ Degree(b.s0, node_id) > 1 THEN "raise"
    ELSE IF ~ chk.result THEN "reject"
    ELSE IF node_id \notin chk.after.n THEN "raise"
    ELSE "remove"

\* Lines 297-328 for node_id under the outcome r of the validation solve.
BatchRemove(b, node_id, rm, r) ==
    /\ okSet' = OkAfter(rm.L, r)
    /\ badSet' = BadAfter(rm.L, r)
    /\ solves' = IF r = "ok" THEN solves + 1 ELSE solves
    /\ IF r = "assert"
       THEN /\ Raise
            /\ batch' = b
            /\ activeN' = rm.L.n
            /\ activeS' = rm.L.s
       ELSE \E a \in {AfterRemoval(b, node_id, rm, r)} :
            /\ batch' = a.b
            /\ activeN' = a.L.n
            /\ activeS' = a.L.s
            /\ UNCHANGED << pc, raised >>

BatchVisit(b, node_id, chk, kind, rm) ==
    IF kind = "skip"
    THEN /\ batch' = b
         /\ UNCHANGED << activeN, activeS, okSet, badSet, pc, raised, solves >>
    ELSE IF kind = "raise"
    THEN /\ Raise
         /\ batch' = b
         /\ UNCHANGED << activeN, activeS, okSet, badSet, solves >>
    ELSE IF kind = "reject"
    THEN /\ batch' = b
         /\ activeN' = chk.after.n
         /\ activeS' = chk.after.s
         /\ UNCHANGED << okSet, badSet, pc, raised, solves >>
    ELSE \E r \in (IF b.validate_fem THEN ValidationOutcomes(rm.L) ELSE {"skipped"}) :
            BatchRemove(b, node_id, rm, r)

\* optimization_batch 264-328: one iteration of the loop over sorted_nodes.
BatchStep ==
    /\ pc = "batch"
    /\ ~ WalkDone(batch)
    /\ \E node_id \in NextNodes(batch) :
        /\ \E b \in {[batch EXCEPT !.visited = @ \cup {node_id}]} :
           \E chk \in {RemovalCheck(batch, lattice, node_id)} :
           \E kind \in {VisitKind(b, lattice, node_id, chk)} :
           \E rm \in {IF kind = "remove" THEN RemoveWithMirror(b, chk.after, node_id)
                      ELSE [L |-> chk.after, mirror_id |-> NoNode]} :
               BatchVisit(b, node_id, chk, kind, rm)
    /\ UNCHANGED << stop_reason, bcVars, pureVars, apiVars, max_reported_progress, energy_history, callVars, setupRemovals, paramVars, consecutive_failures, snapshot,
                    n_active, halving >>

\* Variant of lines 491-495 that never counts a batch without removal.
MainBatchReturn_uncounted ==
    /\ pc = "batch"
    /\ batch.kind = "main"
    /\ WalkDone(batch)
    /\ pc' = "loop"
    /\ n_active' = Count
    /\ batch' = None
    /\ UNCHANGED << activeN, activeS, bcVars, pureVars, apiVars, histVars, callVars, setupRemovals, paramVars,
                    consecutive_failures, snapshot, okSet, badSet, halving, raised,
                    stop_reason >>

\* Variant of line 494 that leaves the loop after the fourth batch without removal.
MainBatchReturn_fourth ==
    /\ pc = "batch"
    /\ batch.kind = "main"
    /\ WalkDone(batch)
    /\ IF batch.removed = 0
       THEN /\ consecutive_failures' = consecutive_failures + 1
            /\ pc' = IF consecutive_failures + 1 >= MaxFailures + 1 THEN "final" ELSE "loop"
            /\ UNCHANGED << activeN, activeS, n_active, max_reported_progress >>
       ELSE \E C \in {_cleanup_dangling(lattice)} :
            /\ consecutive_failures' = 0
            /\ activeN' = C.n
            /\ activeS' = C.s
            /\ n_active' = Cardinality(C.n)
            /\ max_reported_progress' =
                   ReportedProgress(max_reported_progress, Cardinality(C.n), target_nodes)
            /\ pc' = "loop"
    /\ batch' = None
    /\ stop_reason' = IF batch.removed = 0 /\ consecutive_failures + 1 >= MaxFailures + 1
                      THEN "stagnation" ELSE stop_reason
    /\ UNCHANGED << bcVars, pureVars, apiVars, energy_history, solves, callVars, setupRemovals, paramVars, snapshot, okSet, badSet,
                    halving, raised >>

\* run 487-505: the main batch returned.
MainBatchReturn ==
    /\ pc = "batch"
    /\ batch.kind = "main"
    /\ WalkDone(batch)
    /\ IF batch.removed = 0
       THEN /\ consecutive_failures' = consecutive_failures + 1
            /\ pc' = IF consecutive_failures + 1 >= MaxFailures THEN "final" ELSE "loop"
            /\ UNCHANGED << activeN, activeS, n_active, max_reported_progress >>
       ELSE \E C \in {_cleanup_dangling(lattice)} :
            /\ consecutive_failures' = 0
            /\ activeN' = C.n
            /\ activeS' = C.s
            /\ n_active' = Cardinality(C.n)
            /\ max_reported_progress' =
                   ReportedProgress(max_reported_progress, Cardinality(C.n), target_nodes)
            /\ pc' = "loop"
    /\ batch' = None
    /\ stop_reason' = IF batch.removed = 0 /\ consecutive_failures + 1 >= MaxFailures
                      THEN "stagnation" ELSE stop_reason
    /\ UNCHANGED << bcVars, pureVars, apiVars, energy_history, solves, callVars, setupRemovals, paramVars, snapshot, okSet, badSet,
                    halving, raised >>

\* run 442-456: the FEM-validated fallback removal returned.
FallbackReturn ==
    /\ pc = "batch"
    /\ batch.kind = "fallback"
    /\ WalkDone(batch)
    /\ IF batch.removed = 0
       THEN /\ pc' = "final"
            /\ UNCHANGED << n_active, max_reported_progress >>
       ELSE /\ pc' = "loop"
            /\ n_active' = Count
            /\ max_reported_progress' =
                   ReportedProgress(max_reported_progress, Count, target_nodes)
    /\ batch' = None
    /\ stop_reason' = IF batch.removed = 0 THEN "unsolvable" ELSE stop_reason
    /\ UNCHANGED << activeN, activeS, bcVars, pureVars, apiVars, energy_history, solves, callVars, setupRemovals, paramVars,
                    consecutive_failures, snapshot, okSet, badSet, halving,
                    raised >>

HalvingReturns == pc = "batch" /\ batch.kind = "halving" /\ WalkDone(batch)

\* Outcome of "removed > 0 and solve_structure(structure) is not None" (546): the
\* solve is skipped when nothing was removed.
HalvingOutcomes == IF batch.removed > 0 THEN SolveOutcomes(lattice) ELSE {"skipped"}

\* _halving_fallback 546-547 and run 431-441: the attempt removed nodes and the
\* lattice solves: the removals stand.
HalvingSuccess ==
    /\ HalvingReturns
    /\ "ok" \in HalvingOutcomes
    /\ okSet' = OkAfter(lattice, "ok")
    /\ n_active' = Count
    /\ pc' = "loop"
    /\ batch' = None
    /\ halving' = None
    /\ solves' = solves + 1
    /\ max_reported_progress' =
           ReportedProgress(max_reported_progress, Count, target_nodes)
    /\ UNCHANGED << stop_reason, activeN, activeS, bcVars, pureVars, apiVars, energy_history, callVars, setupRemovals, paramVars,
                    consecutive_failures, snapshot, badSet, raised >>

\* Variant of line 549 that rounds the halved batch size up.
HalvingRetry_round_up ==
    /\ HalvingReturns
    /\ halving.attempt + 1 < HalvingAttempts
    /\ \E r \in HalvingOutcomes \ {"ok"} :
        /\ badSet' = BadAfter(lattice, r)
        /\ IF r = "assert"
           THEN /\ Raise
                /\ UNCHANGED << activeN, activeS, halving, batch >>
           ELSE /\ activeN' = _restore_snapshot(halving.snap).n
                /\ activeS' = _restore_snapshot(halving.snap).s
                /\ halving' = [halving EXCEPT !.batch_size = Max(1, (@ + 1) \div 2),
                                              !.attempt = @ + 1]
                /\ batch' = NewBatch("halving", _restore_snapshot(halving.snap),
                                     Max(1, (halving.batch_size + 1) \div 2), FALSE,
                                     halving.fast_mode, FALSE)
                /\ UNCHANGED << pc, raised >>
    /\ UNCHANGED << stop_reason, bcVars, pureVars, apiVars, histVars, callVars, setupRemovals, paramVars, consecutive_failures, snapshot,
                    n_active, okSet >>

\* _halving_fallback 548-549: restore, halve, next attempt.
HalvingRetry ==
    /\ HalvingReturns
    /\ halving.attempt + 1 < HalvingAttempts
    /\ \E r \in HalvingOutcomes \ {"ok"} :
        /\ badSet' = BadAfter(lattice, r)
        /\ IF r = "assert"
           THEN /\ Raise
                /\ UNCHANGED << activeN, activeS, halving, batch >>
           ELSE /\ activeN' = _restore_snapshot(halving.snap).n
                /\ activeS' = _restore_snapshot(halving.snap).s
                /\ halving' = [halving EXCEPT !.batch_size = Max(1, @ \div 2),
                                              !.attempt = @ + 1]
                /\ batch' = NewBatch("halving", _restore_snapshot(halving.snap),
                                     Max(1, halving.batch_size \div 2), FALSE,
                                     halving.fast_mode, FALSE)
                /\ UNCHANGED << pc, raised >>
    /\ UNCHANGED << stop_reason, bcVars, pureVars, apiVars, histVars, callVars, setupRemovals, paramVars, consecutive_failures, snapshot,
                    n_active, okSet >>

\* _halving_fallback 548-551 and run 432-433: the last attempt failed, 0 is
\* returned and run leaves the loop.
HalvingGiveUp ==
    /\ HalvingReturns
    /\ halving.attempt + 1 >= HalvingAttempts
    /\ \E r \in HalvingOutcomes \ {"ok"} :
        /\ badSet' = BadAfter(lattice, r)
        /\ IF r = "assert"
           THEN /\ Raise
                /\ UNCHANGED << activeN, activeS, halving, batch >>
           ELSE /\ activeN' = _restore_snapshot(halving.snap).n
                /\ activeS' = _restore_snapshot(halving.snap).s
                /\ halving' = None
                /\ batch' = None
                /\ pc' = "final"
                /\ UNCHANGED raised
        /\ stop_reason' = IF r = "assert" THEN stop_reason ELSE "unsolvable"
    /\ UNCHANGED << bcVars, pureVars, apiVars, histVars, callVars, setupRemovals, paramVars, consecutive_failures, snapshot,
                    n_active, okSet >>

\* run 507-512: final check against the last snapshot, final cleanup, return.
FinalCheck ==
    /\ pc = "final"
    /\ IF snapshot = None
       THEN \E C \in {_cleanup_dangling(lattice)} :
            /\ activeN' = C.n
            /\ activeS' = C.s
            /\ pc' = "done"
            /\ UNCHANGED << okSet, badSet, raised, stop_reason, solves >>
       ELSE \E r \in SolveOutcomes(lattice) :
              /\ okSet' = OkAfter(lattice, r)
              /\ badSet' = BadAfter(lattice, r)
              /\ solves' = IF r = "ok" THEN solves + 1 ELSE solves
              /\ stop_reason' = IF r = "none" THEN "rollback" ELSE stop_reason
              /\ IF r = "assert"
                 THEN /\ Raise
                      /\ UNCHANGED << activeN, activeS >>
                 ELSE \E C \in {_cleanup_dangling(IF r = "none"
                                                  THEN _restore_snapshot(snapshot)
                                                  ELSE lattice)} :
                          /\ activeN' = C.n
                          /\ activeS' = C.s
                          /\ pc' = "done"
                          /\ UNCHANGED raised
    /\ UNCHANGED << bcVars, pureVars, apiVars, max_reported_progress, energy_history, callVars, setupRemovals, paramVars, consecutive_failures, snapshot,
                    n_active, batch, halving >>

Next ==
    \/ \E n \in Nodes : SetupRemove(n)
    \/ \E pct \in MassPercents, fast \in BOOLEAN, sym \in BOOLEAN, limit \in BOOLEAN :
          StartRun(pct, fast, sym, limit)
    \/ LoopExit
    \/ IterateAssert
    \/ SolveFailStop
    \/ SolveFailFallback
    \/ SolveFailHalving
    \/ StressStop
    \/ StartMainBatch
    \/ BatchStep
    \/ MainBatchReturn
    \/ FallbackReturn
    \/ HalvingSuccess
    \/ HalvingRetry
    \/ HalvingGiveUp
    \/ FinalCheck

Spec == Init /\ [][Next]_vars

\* ------------------------------------------------- validator called alone
\* The ids client code passes to remove_node: every node id and one integer on
\* each side of the range.
RemoveIds == (0 - 1) .. NodeCount

\* Structure.remove_node called by client code with any id.
ValidatorRemove(node_id) ==
    /\ pc = "validator"
    /\ \E c \in {remove_node_call(lattice, node_id)} :
        /\ ~ c.raised => setupRemovals < MaxRawRemovals
        /\ activeN' = c.after.n
        /\ activeS' = c.after.s
        /\ setupRemovals' = IF c.raised THEN setupRemovals ELSE setupRemovals + 1
        /\ calls' = IF c.raised THEN calls ELSE << >>
        /\ removal' = [node |-> node_id, before |-> lattice, after |-> c.after,
                       raised |-> c.raised]
    /\ UNCHANGED << bcVars, pureVars, histVars, ret, ioVars, pc, paramVars, consecutive_failures,
                    snapshot, n_active, okSet, badSet, batch, halving, raised,
                    stop_reason, sv >>

\* The record of one call, kept with the call before it.
Recorded(node_id, c) ==
    LET rec == [node |-> node_id, before |-> lattice, after |-> c.after,
                result |-> c.result, raised |-> c.raised, evaluated |-> c.evaluated]
    IN  IF Len(calls) < 2 THEN Append(calls, rec) ELSE << calls[2], rec >>

\* StructureValidator.can_remove_node(structure, node_id) called by client code.
CallCanRemoveNode(node_id) ==
    /\ pc = "validator"
    /\ \E c \in {can_remove_node(lattice, node_id)} :
        /\ activeN' = c.after.n
        /\ activeS' = c.after.s
        /\ calls' = Recorded(node_id, c)
    /\ UNCHANGED << bcVars, pureVars, apiVars, histVars, pc, setupRemovals, paramVars, consecutive_failures,
                    snapshot, n_active, okSet, badSet, batch, halving, raised,
                    stop_reason, sv >>

ValidatorInit == Fresh /\ pc = "validator"

ValidatorNext ==
    \/ \E n \in RemoveIds : ValidatorRemove(n)
    \/ \E n \in Nodes : CallCanRemoveNode(n)

ValidatorSpec == ValidatorInit /\ [][ValidatorNext]_vars

\* ---------------------------------------------------- solver called alone
\* Displacements are abstracted to their sign; u_free is what spsolve returns.
Values == {-1, 0, 1}

UFree(free) ==
    { [d \in free |-> v] : v \in Values }
    \cup { [d \in free |-> IF d % 2 = 0 THEN v ELSE 0] : v \in Values }

\* Variant of lines 139-141 that returns u_free, the reduced vector.
Scatter_reduced(free, u_free) == u_free

\* u = np.zeros(n); u[free] = u_free
Scatter(free, u_free) == [d \in Dofs |-> IF d \in free THEN u_free[d] ELSE 0]

SolveResults == {"finite", "nonfinite", "raise"}

\* Structure.remove_node called by client code between two solves.
SolverRemove(node_id) ==
    /\ pc = "solver"
    /\ sv.pc \in {"idle", "returned", "rejected"}
    /\ setupRemovals < MaxRawRemovals
    /\ node_id \in activeN
    /\ activeN' = remove_node(lattice, node_id).n
    /\ activeS' = remove_node(lattice, node_id).s
    /\ setupRemovals' = setupRemovals + 1
    /\ sv' = Idle
    /\ UNCHANGED << bcVars, pureVars, apiVars, histVars, pc, paramVars, consecutive_failures, snapshot, n_active,
                    okSet, badSet, batch, halving, raised, stop_reason, calls >>

solverFrame ==
    << activeN, activeS, bcVars, pureVars, apiVars, histVars, pc, setupRemovals, paramVars, consecutive_failures,
       snapshot, n_active, okSet, badSet, batch, halving, raised, stop_reason, calls >>

\* solve_structure 169-170: K_g = assemble_global_K(structure) and
\* F = assemble_force_vector(structure), the first two statements of the body.
solve_structure_assemble ==
    /\ pc = "solver"
    /\ sv.pc = "idle"
    /\ sv' = [sv EXCEPT !.pc = "assembled", !.assembled = << "K_g", "F" >>]
    /\ UNCHANGED solverFrame

\* Variant of solve_structure that calls solve whatever get_fixed_dofs returns.
solve_structure_unasserted ==
    /\ pc = "solver"
    /\ sv.pc = "assembled"
    /\ sv' = [sv EXCEPT !.pc = "solve", !.fixed = get_fixed_dofs(activeN)]
    /\ UNCHANGED solverFrame

\* solve_structure 171-175: get_fixed_dofs, the assertion, the call of solve.
solve_structure ==
    /\ pc = "solver"
    /\ sv.pc = "assembled"
    /\ sv' = IF get_fixed_dofs(activeN) = {}
             THEN [sv EXCEPT !.pc = "rejected"]
             ELSE [sv EXCEPT !.pc = "solve", !.fixed = get_fixed_dofs(activeN)]
    /\ UNCHANGED solverFrame

\* solve 125-141: no free DOF: zeros; otherwise the direct solve, which returns a
\* finite vector, returns a non-finite one (ValueError raised at 138) or raises.
solve_direct ==
    /\ pc = "solver"
    /\ sv.pc = "solve"
    /\ IF Dofs \ sv.fixed = {}
       THEN sv' = [sv EXCEPT !.pc = "returned", !.ret = "vector"]
       ELSE \E res \in SolveResults :
              IF res = "finite"
              THEN \E u_free \in UFree(Dofs \ sv.fixed) :
                     sv' = [sv EXCEPT !.pc = "returned", !.direct = res, !.ret = "vector",
                                      !.u = Scatter(Dofs \ sv.fixed, u_free)]
              ELSE sv' = [sv EXCEPT !.pc = "except", !.direct = res]
    /\ UNCHANGED solverFrame

\* Variant of lines 143-153 without the inner try: an exception of the second
\* spsolve escapes, and a non-finite result is returned as it is.
solve_regularized_unguarded ==
    /\ pc = "solver"
    /\ sv.pc = "except"
    /\ \E res \in SolveResults :
         IF res = "raise"
         THEN sv' = [sv EXCEPT !.pc = "raised", !.retry = res, !.retries = @ + 1]
         ELSE \E u_free \in UFree(Dofs \ sv.fixed) :
                sv' = [sv EXCEPT !.pc = "returned", !.retry = res, !.retries = @ + 1,
                                 !.ret = "vector",
                                 !.u = Scatter(Dofs \ sv.fixed, u_free)]
    /\ UNCHANGED solverFrame

\* solve 143-153: the except branch: one solve of K_ff + eps * I; a finite vector
\* is returned, anything else gives None.
solve_regularized ==
    /\ pc = "solver"
    /\ sv.pc = "except"
    /\ \E res \in SolveResults :
         IF res = "finite"
         THEN \E u_free \in UFree(Dofs \ sv.fixed) :
                sv' = [sv EXCEPT !.pc = "returned", !.retry = res, !.retries = @ + 1,
                                 !.ret = "vector",
                                 !.u = Scatter(Dofs \ sv.fixed, u_free)]
         ELSE sv' = [sv EXCEPT !.pc = "returned", !.retry = res, !.retries = @ + 1,
                               !.ret = "None"]
    /\ UNCHANGED solverFrame

SolverInit == Fresh /\ pc = "solver"

SolverNext ==
    \/ \E n \in Nodes : SolverRemove(n)
    \/ solve_structure_assemble
    \/ solve_structure
    \/ solve_direct
    \/ solve_regularized

SolverSpec == SolverInit /\ [][SolverNext]_vars

\* ------------------------------------------- batch called by client code
\* Client code builds a lattice, removes up to MaxSetupRemovals nodes and makes one
\* call.  The arguments it passes:
BatchSizes == 0 .. MaxBatchSize

FemAttemptLimits == 0 .. MaxFemAttempts

clientFrame ==
    << bcVars, pureVars, histVars, callVars, removal, ioVars, paramVars, consecutive_failures,
       snapshot, n_active, halving, raised, stop_reason >>

\* Structure.remove_node called by client code before it optimizes.
ClientRemove(node_id) ==
    /\ pc = "client"
    /\ batch = None
    /\ setupRemovals < MaxSetupRemovals
    /\ node_id \in activeN
    /\ activeN' = remove_node(lattice, node_id).n
    /\ activeS' = remove_node(lattice, node_id).s
    /\ setupRemovals' = setupRemovals + 1
    /\ UNCHANGED << clientFrame, pc, batch, ret, okSet, badSet >>

\* optimization_batch(structure, u, batch_size, validate_fem, fast_mode,
\* max_fem_attempts, use_symmetry) called by client code (lines 238-262).
CallBatch(size, validate, fast, max_fem, sym) ==
    /\ pc = "client"
    /\ batch = None
    /\ batch' = [NewBatch("client", lattice, size, validate, fast, sym)
                   EXCEPT !.max_fem_attempts = max_fem]
    /\ ret' = None
    /\ okSet' = {}
    /\ badSet' = {}
    /\ pc' = "batch"
    /\ UNCHANGED << clientFrame, activeN, activeS, setupRemovals >>

\* optimization_step(structure, u) called by client code: line 142.
CallStep ==
    /\ pc = "client"
    /\ batch = None
    /\ batch' = NewBatch("step", lattice, 1, FALSE, FALSE, FALSE)
    /\ ret' = None
    /\ okSet' = {}
    /\ badSet' = {}
    /\ pc' = "batch"
    /\ UNCHANGED << clientFrame, activeN, activeS, setupRemovals >>

\* optimization_batch 330: return removed.
ClientBatchReturn ==
    /\ pc = "batch"
    /\ batch.kind = "client"
    /\ WalkDone(batch)
    /\ ret' = [value |-> batch.removed]
    /\ pc' = "client"
    /\ UNCHANGED << clientFrame, activeN, activeS, setupRemovals, batch, okSet, badSet >>

\* optimization_step 143: return None if removed == 0 else -1.
optimization_step(removed) == IF removed = 0 THEN None ELSE [value |-> 0 - 1]

StepReturn ==
    /\ pc = "batch"
    /\ batch.kind = "step"
    /\ WalkDone(batch)
    /\ ret' = optimization_step(batch.removed)
    /\ pc' = "client"
    /\ UNCHANGED << clientFrame, activeN, activeS, setupRemovals, batch, okSet, badSet >>

BatchInit == Fresh /\ pc = "client"

BatchNext ==
    \/ \E n \in Nodes : ClientRemove(n)
    \/ \E size \in BatchSizes, validate \in BOOLEAN, fast \in BOOLEAN,
          max_fem \in FemAttemptLimits, sym \in BOOLEAN :
          CallBatch(size, validate, fast, max_fem, sym)
    \/ CallStep
    \/ BatchStep
    \/ ClientBatchReturn
    \/ StepReturn

BatchSpec == BatchInit /\ [][BatchNext]_vars

\* ------------------------------------------- _halving_fallback called alone
MaxRemaining == 25

\* The values of remaining client code passes: none left, one, a few, and more
\* than the first batch size.
RemainingChoices == {0, 1, 5, MaxRemaining}

halvingFrame ==
    << bcVars, pureVars, callVars, removal, ioVars, paramVars, consecutive_failures,
       snapshot, n_active, stop_reason, setupRemovals, max_reported_progress,
       energy_history >>

\* _halving_fallback(structure, u, remaining, fast_mode) called by client code
\* (lines 539-545): first batch size, snapshot, first attempt.
CallHalvingFallback(remaining, fast) ==
    /\ pc = "client"
    /\ batch = None
    /\ halving = None
    /\ halving' = NewHalving(lattice, remaining, fast)
    /\ batch' = NewBatch("halving", lattice, Min(HalvingBatch, remaining), FALSE, fast,
                         FALSE)
    /\ ret' = None
    /\ okSet' = {}
    /\ badSet' = {}
    /\ pc' = "batch"
    /\ UNCHANGED << halvingFrame, activeN, activeS, raised, solves >>

\* _halving_fallback 546-547: the attempt removed nodes and the lattice solves:
\* return removed.
ClientHalvingSuccess ==
    /\ HalvingReturns
    /\ "ok" \in HalvingOutcomes
    /\ okSet' = OkAfter(lattice, "ok")
    /\ ret' = [value |-> batch.removed]
    /\ solves' = solves + 1
    /\ pc' = "client"
    /\ UNCHANGED << halvingFrame, activeN, activeS, badSet, batch, halving, raised >>

\* _halving_fallback 548-551: the last attempt failed: restore and return 0.
ClientHalvingGiveUp ==
    /\ HalvingReturns
    /\ halving.attempt + 1 >= HalvingAttempts
    /\ \E r \in HalvingOutcomes \ {"ok"} :
        /\ badSet' = BadAfter(lattice, r)
        /\ IF r = "assert"
           THEN /\ Raise
                /\ UNCHANGED << activeN, activeS, ret >>
           ELSE /\ activeN' = _restore_snapshot(halving.snap).n
                /\ activeS' = _restore_snapshot(halving.snap).s
                /\ ret' = [value |-> 0]
                /\ pc' = "client"
                /\ UNCHANGED raised
    /\ UNCHANGED << halvingFrame, okSet, batch, halving, solves >>

HalvingInit == Fresh /\ pc = "client"

HalvingNext ==
    \/ \E remaining \in RemainingChoices, fast \in BOOLEAN :
          CallHalvingFallback(remaining, fast)
    \/ BatchStep
    \/ HalvingRetry
    \/ ClientHalvingSuccess
    \/ ClientHalvingGiveUp

HalvingSpec == HalvingInit /\ [][HalvingNext]_vars

\* ------------------------------------------------ persistence/io_handler.py
VERSION == 1

\* json.dump / json.load of a bool (Node.active, fix_x, fix_y, Spring.active) and
\* of Spring.k (None or a float); numbers are written and read back as they are.
json_dump_bool(b) == IF b THEN "true" ELSE "false"

json_load_bool(t) == t = "true"

json_dump_k(v) == IF v = "None" THEN "null" ELSE v

json_load_k(t) == IF t = "null" THEN "None" ELSE t

\* The Structure object of the model state.
structure ==
    [width |-> Width, height |-> Height, material |-> material,
     nodes |-> [n \in Nodes |->
                  [active |-> n \in activeN, fix_x |-> fix_x[n], fix_y |-> fix_y[n],
                   force_x |-> force[n][1], force_y |-> force[n][2]]],
     springs |-> [s \in Springs |-> [k |-> k[s], active |-> s \in activeS]]]

\* Lines 29-41 and 186-198: one record per node, in the order of structure.nodes.
nodes_data(S) ==
    [i \in 1 .. NodeCount |->
        [id |-> i - 1, x |-> NodeX(i - 1), y |-> NodeY(i - 1),
         active |-> json_dump_bool(S.nodes[i - 1].active),
         fix_x |-> json_dump_bool(S.nodes[i - 1].fix_x),
         fix_y |-> json_dump_bool(S.nodes[i - 1].fix_y),
         force_x |-> S.nodes[i - 1].force_x,
         force_y |-> S.nodes[i - 1].force_y]]

\* Lines 43-52 and 200-209: one record per spring, in the order of
\* structure.springs.
springs_data(S) ==
    [i \in 1 .. SpringCount |->
        [id |-> i - 1, node_a |-> node_a(i - 1), node_b |-> node_b(i - 1),
         k |-> json_dump_k(S.springs[i - 1].k),
         active |-> json_dump_bool(S.springs[i - 1].active)]]

\* Lines 54-60 and 211-217: the document written.
data(S) ==
    [version |-> VERSION, width |-> S.width, height |-> S.height,
     nodes |-> nodes_data(S), springs |-> springs_data(S)]

\* Structure(width, height) as load builds it (lines 89, 150): the grid of these
\* dimensions with every node and spring active, no supports, no loads, no
\* stiffness set by hand, and the default material.
Structure(width, height) ==
    [width |-> width, height |-> height, material |-> defaults[1],
     nodes |-> [n \in 0 .. (width * height - 1) |->
                  [active |-> TRUE, fix_x |-> FALSE, fix_y |-> FALSE,
                   force_x |-> 0, force_y |-> 0]],
     springs |-> [s \in Springs |-> [k |-> "None", active |-> TRUE]]]

\* The last record of seq whose id is id (each assignment of the loops at 92-98
\* and 101-104 overwrites the one before), or 0 if there is none.
LastWithId(seq, id) ==
    LET hits == { i \in DOMAIN seq : seq[i].id = id }
    IN IF hits = {} THEN 0 ELSE CHOOSE i \in hits : \A j \in hits : j <= i

\* Lines 85-106 and 146-167: the assertion on the version, the new grid, and the
\* fields of every node and spring record written to the object with that id.
Restored(raw) ==
    LET S == Structure(raw.width, raw.height)
    IN IF raw.version # VERSION
       THEN [raised |-> TRUE, structure |-> S]
       ELSE [raised |-> FALSE,
             structure |->
               [S EXCEPT
                 !.nodes = [n \in DOMAIN S.nodes |->
                              LET i == LastWithId(raw.nodes, n)
                              IN IF i = 0 THEN S.nodes[n]
                                 ELSE [active |-> json_load_bool(raw.nodes[i].active),
                                       fix_x |-> json_load_bool(raw.nodes[i].fix_x),
                                       fix_y |-> json_load_bool(raw.nodes[i].fix_y),
                                       force_x |-> raw.nodes[i].force_x,
                                       force_y |-> raw.nodes[i].force_y]],
                 !.springs = [s \in DOMAIN S.springs |->
                                LET i == LastWithId(raw.springs, s)
                                IN IF i = 0 THEN S.springs[s]
                                   ELSE [k |-> json_load_k(raw.springs[i].k),
                                         active |-> json_load_bool(raw.springs[i].active)]]]]

Reversed(seq) == [i \in DOMAIN seq |-> seq[Len(seq) + 1 - i]]

\* The forces a client puts on a loaded node, and the stiffness it sets by hand.
ForceChoices == { << 0, 0 - 1 >>, << 1, 0 >>, << 0 - 1, 1 >> }

StiffnessChoices == {"None", "2.5"}

ioFrame ==
    << bcVars, pureVars, histVars, callVars, removal, ret, paramVars, consecutive_failures,
       snapshot, n_active, okSet, badSet, batch, halving, stop_reason, pc,
       material, force, k >>

\* Structure.remove_node called by client code before it saves.
IORemove(node_id) ==
    /\ pc = "io"
    /\ file = None
    /\ setupRemovals < MaxSetupRemovals
    /\ node_id \in activeN
    /\ activeN' = remove_node(lattice, node_id).n
    /\ activeS' = remove_node(lattice, node_id).s
    /\ setupRemovals' = setupRemovals + 1
    /\ UNCHANGED << ioFrame, file, s_loaded, raised >>

\* IOHandler.save(structure, filepath).
save ==
    /\ pc = "io"
    /\ file = None
    /\ file' = [medium |-> "path", data |-> data(structure)]
    /\ UNCHANGED << ioFrame, activeN, activeS, setupRemovals, s_loaded, raised >>

\* IOHandler.to_json_bytes(structure).
to_json_bytes ==
    /\ pc = "io"
    /\ file = None
    /\ file' = [medium |-> "bytes", data |-> data(structure)]
    /\ UNCHANGED << ioFrame, activeN, activeS, setupRemovals, s_loaded, raised >>

\* The file is edited outside the program: its node records or its spring
\* records are put in the opposite order.
ReorderRecords(part) ==
    /\ pc = "io"
    /\ file # None
    /\ s_loaded = None
    /\ ~ raised
    /\ file' = IF part = "nodes"
               THEN [file EXCEPT !.data.nodes = Reversed(@)]
               ELSE [file EXCEPT !.data.springs = Reversed(@)]
    /\ UNCHANGED << ioFrame, activeN, activeS, setupRemovals, s_loaded, raised >>

\* IOHandler.load(filepath).
load ==
    /\ pc = "io"
    /\ file # None
    /\ file.medium = "path"
    /\ s_loaded = None
    /\ ~ raised
    /\ raised' = Restored(file.data).raised
    /\ s_loaded' = IF Restored(file.data).raised THEN None
                   ELSE Restored(file.data).structure
    /\ UNCHANGED << ioFrame, activeN, activeS, setupRemovals, file >>

\* IOHandler.load_from_bytes(data).
load_from_bytes ==
    /\ pc = "io"
    /\ file # None
    /\ file.medium = "bytes"
    /\ s_loaded = None
    /\ ~ raised
    /\ raised' = Restored(file.data).raised
    /\ s_loaded' = IF Restored(file.data).raised THEN None
                   ELSE Restored(file.data).structure
    /\ UNCHANGED << ioFrame, activeN, activeS, setupRemovals, file >>

\* A grid with supports and loads, any standard material, a force on every loaded
\* node and at most one spring stiffness set by hand.
IOInit ==
    /\ Constructed
    /\ pc = "io"
    /\ material \in { defaults[i] : i \in DOMAIN defaults }
    /\ \E f \in [LoadNodes -> ForceChoices] :
        force = [n \in Nodes |-> IF loaded[n] THEN f[n] ELSE << 0, 0 >>]
    /\ \E s \in {0, SpringCount - 1}, v \in StiffnessChoices :
        k = [t \in Springs |-> IF t = s THEN v ELSE "None"]
    /\ dims = [width |-> Width, height |-> Height]
    /\ built = None
    /\ query = None

IONext ==
    \/ \E n \in Nodes : IORemove(n)
    \/ save
    \/ to_json_bytes
    \/ \E part \in {"nodes", "springs"} : ReorderRecords(part)
    \/ load
    \/ load_from_bytes

IOSpec == IOInit /\ [][IONext]_vars

\* ------------------------------------------------ constructor called alone
\* The widths and heights client code passes to Structure(width, height).
DimChoices == (0 - 1) .. MaxDim

\* Structure(width, height) called by client code.
CallStructure ==
    /\ pc = "grid"
    /\ built = None
    /\ ~ raised
    /\ \E S \in {StructureInit(dims.width, dims.height)} :
        /\ raised' = S.raised
        /\ built' = IF S.raised THEN None ELSE S
    /\ UNCHANGED << activeN, activeS, bcVars, apiVars, histVars, callVars, pc,
                    setupRemovals, paramVars, consecutive_failures, snapshot, n_active,
                    okSet, badSet, batch, halving, stop_reason, dims, query >>

\* Client code is about to build a grid: no structure exists yet (the lattice of
\* the other operations is left as built, without supports or loads).
GridInit ==
    /\ Constructed
    /\ \A n \in Nodes : ~ fix_y[n] /\ ~ loaded[n]
    /\ pc = "grid"
    /\ material = defaults[1]
    /\ force = UnitLoads
    /\ k = [s \in Springs |-> "None"]
    /\ dims \in [width : DimChoices, height : DimChoices]
    /\ built = None
    /\ query = None

GridNext == CallStructure

GridSpec == GridInit /\ [][GridNext]_vars

\* ------------------------------------------------ assembly called alone
\* Client code builds a lattice with a material and possibly a stiffness set by
\* hand on its first horizontal or first diagonal spring, removes nodes, and calls
\* assemble_global_K.
queryFrame ==
    << activeN, activeS, bcVars, apiVars, histVars, callVars, pc, setupRemovals,
       paramVars, consecutive_failures, snapshot, n_active, okSet, badSet, batch,
       halving, raised, stop_reason, dims, built >>

\* Structure.remove_node called by client code.
AssemblyRemove(node_id) ==
    /\ pc = "assembly"
    /\ setupRemovals < MaxRawRemovals
    /\ node_id \in activeN
    /\ activeN' = remove_node(lattice, node_id).n
    /\ activeS' = remove_node(lattice, node_id).s
    /\ setupRemovals' = setupRemovals + 1
    /\ query' = None
    /\ UNCHANGED << bcVars, apiVars, histVars, callVars, pc, paramVars,
                    consecutive_failures, snapshot, n_active, okSet, badSet, batch,
                    halving, raised, stop_reason, dims, built >>

\* assemble_global_K(structure) called by client code.
CallAssembleGlobalK ==
    /\ pc = "assembly"
    /\ query' = [fn |-> "assemble_global_K", node |-> 0 - 1,
                 result |-> assemble_global_K(activeS)]
    /\ UNCHANGED queryFrame

AssemblyInit ==
    /\ Constructed
    /\ \A n \in Nodes : ~ fix_y[n] /\ ~ loaded[n]
    /\ pc = "assembly"
    /\ material \in { defaults[i] : i \in DOMAIN defaults }
    /\ force = UnitLoads
    /\ \E s \in {0, 2}, v \in {"None", "2.5"} :
        k = [t \in Springs |-> IF t = s THEN v ELSE "None"]
    /\ dims = [width |-> Width, height |-> Height]
    /\ built = None
    /\ query = None

AssemblyNext ==
    \/ \E n \in Nodes : AssemblyRemove(n)
    \/ CallAssembleGlobalK

AssemblySpec == AssemblyInit /\ [][AssemblyNext]_vars

\* ------------------------------------------ validator predicates called alone
MaxPredicateRemovals == 6

\* Structure.remove_node called by client code on any active node.
PredicateRemove(node_id) ==
    /\ pc = "predicate"
    /\ setupRemovals < MaxPredicateRemovals
    /\ node_id \in activeN
    /\ activeN' = remove_node(lattice, node_id).n
    /\ activeS' = remove_node(lattice, node_id).s
    /\ setupRemovals' = setupRemovals + 1
    /\ query' = None
    /\ UNCHANGED << bcVars, apiVars, histVars, callVars, pc, paramVars,
                    consecutive_failures, snapshot, n_active, okSet, badSet, batch,
                    halving, raised, stop_reason, dims, built >>

\* StructureValidator.is_connected(structure) called by client code.
CallIsConnected ==
    /\ pc = "predicate"
    /\ query' = [fn |-> "is_connected", node |-> 0 - 1,
                 result |-> is_connected(activeN, activeS)]
    /\ UNCHANGED queryFrame

\* StructureValidator.has_load_paths(structure) called by client code.
CallHasLoadPaths ==
    /\ pc = "predicate"
    /\ query' = [fn |-> "has_load_paths", node |-> 0 - 1,
                 result |-> has_load_paths(activeN, activeS)]
    /\ UNCHANGED queryFrame

\* StructureValidator.neighbors_stable_after_removal(structure, node_id) called by
\* client code.
CallNeighborsStable(node_id) ==
    /\ pc = "predicate"
    /\ query' = [fn |-> "neighbors_stable_after_removal", node |-> node_id,
                 result |-> neighbors_stable_after_removal(activeN, activeS, node_id)]
    /\ UNCHANGED queryFrame

PredicateInit == Fresh /\ pc = "predicate"

PredicateNext ==
    \/ \E n \in Nodes : PredicateRemove(n)
    \/ CallIsConnected
    \/ CallHasLoadPaths
    \/ \E n \in Nodes : CallNeighborsStable(n)

PredicateSpec == PredicateInit /\ [][PredicateNext]_vars

\* ------------------------------------------- run on a lattice with pinned columns
\* Supports only: each column of the grid is pinned as a whole or free, and no
\* node is loaded.
ColumnPinMaps ==
    { r \in [Nodes -> {"free", "pin"}] :
        \A n \in Nodes, m \in Nodes : NodeX(n) = NodeX(m) => r[n] = r[m] }

PinnedInit ==
    /\ Unconfigured
    /\ \E r \in ColumnPinMaps : Configured(r)
    /\ Defaults
    /\ pc = "setup"

PinnedSpec == PinnedInit /\ [][Next]_vars

\* ------------------------------------------------------------ termination
\* Size of the largest lattice the run can still return to: the snapshot a failed
\* solve restores, or the lattice a fallback or halving search started from.
Ceiling ==
    IF halving # None THEN Cardinality(halving.snap.n)
    ELSE IF pc = "batch" /\ batch.kind = "fallback" THEN Cardinality(batch.n0)
    ELSE IF snapshot # None THEN Cardinality(snapshot.n)
    ELSE Count

\* Position inside one round of the main loop, larger is earlier.
Phase ==
    IF pc = "loop"
    THEN IF snapshot # None /\ Count < Cardinality(snapshot.n) THEN 6
         ELSE 10 * (MaxFailures - consecutive_failures) + 9
    ELSE IF pc = "batch"
    THEN IF batch.kind # "main" THEN 5
         ELSE IF batch.removed > 0 THEN 7
         ELSE 10 * (MaxFailures - consecutive_failures) + 8
    ELSE IF pc = "final" THEN 1
    ELSE 0

\* Iterations left in the current walk and in the halving attempts after it.
Inner ==
    IF pc # "batch" THEN 0
    ELSE (IF halving # None
          THEN (HalvingAttempts - halving.attempt) * (NodeCount + 1) ELSE 0)
         + (NodeCount - Cardinality(batch.visited))

PhaseBase == 10 * MaxFailures + 10

InnerBase == (HalvingAttempts + 1) * (NodeCount + 1)

\* <<Ceiling, Phase, Inner>> in lexicographic order, as one natural number.
Measure == (Ceiling * PhaseBase + Phase) * InnerBase + Inner

NonBlocking == pc \in {"loop", "batch", "final"} => ENABLED <<Next>>_vars

\* ------------------------------------------------------------------ claims
StartL == [n |-> startN, s |-> startS]

Returned == pc = "done"

\* C1: for a lattice that is connected and has load paths when run starts in
\* standard mode (fast_mode = False), is_connected and has_load_paths both hold on
\* the lattice when run returns, whatever stop reason ended the run.
RunKeepsConnectedWithLoadPaths ==
    (/\ Returned
     /\ ~ fast_mode
     /\ is_connected(startN, startS)
     /\ has_load_paths(startN, startS))
    => (is_connected(activeN, activeS) /\ has_load_paths(activeN, activeS))

\* A standard-mode run from a connected lattice with load paths returned after
\* removing nodes.
RunKeepsConnectedWitness ==
    /\ Returned
    /\ ~ fast_mode
    /\ is_connected(startN, startS)
    /\ has_load_paths(startN, startS)
    /\ \E n \in Nodes : loaded[n]
    /\ activeN # startN
    /\ is_connected(activeN, activeS)

\* C2: every node with a fixed DOF or an applied force that is active when run
\* starts is still active when run returns, in every mode; no removal path
\* deactivates such a node at any point of the run.
SupportsAndLoadsStayActive ==
    pc \in {"loop", "batch", "final", "done", "raised"}
    => \A n \in startN : (fix_x[n] \/ fix_y[n] \/ loaded[n]) => n \in activeN

\* A run with a support and a loaded node returned after removing nodes, both
\* still active.
SupportsAndLoadsWitness ==
    /\ Returned
    /\ \E n \in startN : (fix_x[n] \/ fix_y[n]) /\ n \in activeN
    /\ \E n \in startN : loaded[n] /\ n \in activeN
    /\ Cardinality(activeN) + 2 <= Cardinality(startN)

\* A solve of lattice L is known to succeed: observed in this run, or L has a fixed
\* DOF and no free DOF (solve returns zeros).
Validated(L) ==
    \/ L \in okSet
    \/ get_fixed_dofs(L.n) # {} /\ FreeDofs(L.n) = {}

\* C3: for a lattice on which the solve succeeds when run starts, the lattice left
\* by run is solvable: it is the start lattice itself or a lattice whose solve was
\* observed to succeed, never one whose solve returned None.
FinalLatticeSolvable ==
    (Returned /\ get_fixed_dofs(startN) # {} /\ StartL \notin badSet)
    => /\ lattice \notin badSet
       /\ Validated(lattice) \/ lattice = StartL

\* A run from a solvable lattice met an unsolvable lattice, and returned a smaller,
\* solved lattice.
FinalLatticeSolvableWitness ==
    /\ Returned
    /\ get_fixed_dofs(startN) # {}
    /\ StartL \notin badSet
    /\ badSet # {}
    /\ lattice \in okSet
    /\ activeN # startN

\* C4: run terminates for every lattice and every mass fraction, in standard and
\* in fast mode: every step of run strictly decreases a natural-number measure, so
\* the loop cannot cycle through batch removal, failed solve, rollback and
\* fallback, and run always has a next step until it returns or raises.
RunTerminates ==
    /\ [][pc # "setup" => (Measure' < Measure /\ Measure' >= 0)]_vars
    /\ [](pc \in {"loop", "batch", "final"} => ENABLED <<Next>>_vars)

\* A run on a lattice with a support met an unsolvable lattice, recovered through a
\* fallback and returned because the target was reached.
RunTerminatesWitness ==
    /\ Returned
    /\ Supports(startN) # {}
    /\ badSet # {}
    /\ stop_reason = "target"
    /\ activeN # startN

Slack == 3

\* C5 as stated: when run returns, the number of active nodes is at most
\* max(2, floor(N * f)) + 3.
ActiveWithinSlackOfTarget == Returned => Count <= TargetNodes(mass_pct) + Slack

\* C5, amended: when run returns after its loop ended because the active count
\* reached the target and the final check did not roll back, the number of
\* active nodes is at most max(2, floor(N * f)); only a run that stopped early
\* (unsolvable lattice, stress guard, three batches without removal) or rolled
\* back can return more.
ActiveAtMostTargetUnlessStopped ==
    Returned => (Count <= TargetNodes(mass_pct) \/ stop_reason # "target")

\* A run removed nodes and returned at the target.
ActiveAtMostTargetWitness ==
    /\ Returned
    /\ stop_reason = "target"
    /\ Count = TargetNodes(mass_pct)
    /\ Cardinality(startN) > TargetNodes(mass_pct)

\* The speculative branch of can_remove_node (lines 162-175) ran in call c.
Speculated(c) ==
    /\ c.node \in c.before.n
    /\ neighbors_stable_after_removal(c.before.n, c.before.s, c.node)

\* C6: can_remove_node leaves the lattice unchanged: for every active node id and
\* every lattice, the active flags of all nodes and springs after the call equal
\* those before it, whether the answer is true or false.
CanRemoveNodeLeavesLattice ==
    \A i \in 1 .. Len(calls) :
        calls[i].node \in calls[i].before.n => calls[i].after = calls[i].before

\* Two calls that both deactivated and restored a node with active springs, one
\* answering true and one answering false.
CanRemoveNodeLeavesLatticeWitness ==
    /\ Len(calls) = 2
    /\ Speculated(calls[1]) /\ calls[1].result = TRUE
    /\ Speculated(calls[2]) /\ calls[2].result = FALSE
    /\ SpringsAt[calls[2].node] \cap calls[2].before.s # {}
    /\ lattice = calls[2].before

\* C7: can_remove_node is a pure predicate: two calls in succession on the same
\* node, with no other mutation of the lattice between them, give the same answer.
CanRemoveNodeSameAnswerTwice ==
    (Len(calls) = 2 /\ calls[1].node = calls[2].node)
    => /\ calls[1].result = calls[2].result
       /\ calls[1].raised = calls[2].raised

\* The same node was checked twice on a lattice with a removed node, and both
\* calls went through the speculative branch and answered false.
CanRemoveNodeSameAnswerWitness ==
    /\ Len(calls) = 2
    /\ calls[1].node = calls[2].node
    /\ Speculated(calls[1]) /\ Speculated(calls[2])
    /\ calls[1].result = FALSE /\ calls[2].result = FALSE
    /\ activeN # Nodes

\* solve (the linear solve) was entered by the current solve_structure call.
SolveEntered == pc = "solver" /\ sv.pc \in {"solve", "except", "returned"}

\* C8: solve_structure rejects every lattice in which no active node has a fixed
\* DOF, for any combination of active and inactive nodes: such a lattice is never
\* passed on to the linear solve.
NoSupportNeverSolved == SolveEntered => Supports(activeN) # {}

\* C9: in every displacement vector returned by a successful solve, both DOFs of
\* every inactive node and every fixed DOF of an active node are 0.
FixedAndInactiveDofsZero ==
    (pc = "solver" /\ sv.pc = "returned" /\ sv.ret = "vector")
    => \A n \in Nodes :
          /\ n \notin activeN => sv.u[DofX(n)] = 0 /\ sv.u[DofY(n)] = 0
          /\ (n \in activeN /\ fix_x[n]) => sv.u[DofX(n)] = 0
          /\ (n \in activeN /\ fix_y[n]) => sv.u[DofY(n)] = 0

\* A vector with non-zero entries was returned for a lattice with an inactive node
\* and a roller support whose free DOF moved.
FixedAndInactiveDofsZeroWitness ==
    /\ pc = "solver" /\ sv.pc = "returned" /\ sv.ret = "vector"
    /\ activeN # Nodes
    /\ \E n \in activeN : fix_y[n] /\ ~ fix_x[n] /\ sv.u[DofX(n)] # 0
    /\ \E n \in activeN : sv.u[DofY(n)] # 0

\* C10: solve never raises; it tries the direct solve first; if that raises or
\* yields a non-finite value it retries exactly once with the regularized matrix;
\* if the retry also raises or yields a non-finite value it returns None; the
\* retry is never attempted when the direct solve succeeded.
SolveRetriesOnceThenNone ==
    pc = "solver" =>
      /\ sv.pc # "raised"
      /\ sv.retries <= 1
      /\ sv.pc = "returned" =>
           /\ sv.direct \in {"none", "finite"} => (sv.retries = 0 /\ sv.ret = "vector")
           /\ sv.direct \in {"nonfinite", "raise"} =>
                /\ sv.retries = 1
                /\ sv.retry = "finite" => sv.ret = "vector"
                /\ sv.retry \in {"nonfinite", "raise"} => sv.ret = "None"

\* The direct solve raised, the regularized retry gave a non-finite vector, and
\* solve returned None.
SolveRetriesOnceWitness ==
    /\ pc = "solver" /\ sv.pc = "returned"
    /\ sv.direct = "raise"
    /\ sv.retry = "nonfinite"
    /\ sv.retries = 1
    /\ sv.ret = "None"

\* C11: Structure.remove_node(id) on an active node marks that node inactive and
\* deactivates every spring incident to it, leaving every other node and every
\* non-incident spring unchanged; on an inactive node or an id out of range it
\* fails and changes nothing.
RemoveNodeDeactivatesNodeAndSprings ==
    removal # None =>
        IF removal.node \in removal.before.n
        THEN /\ ~ removal.raised
             /\ \A m \in Nodes :
                   m \in removal.after.n <=> (m \in removal.before.n /\ m # removal.node)
             /\ \A s \in Springs :
                   s \in removal.after.s
                     <=> (s \in removal.before.s /\ ~ Incident(s, removal.node))
             /\ lattice = removal.after
        ELSE /\ removal.raised
             /\ removal.after = removal.before
             /\ lattice = removal.before

\* remove_node succeeded on a node that still had active springs as node_a and as
\* node_b, on a lattice with an inactive node.
RemoveNodeWitness ==
    /\ removal # None
    /\ ~ removal.raised
    /\ removal.before.n # Nodes
    /\ \E s \in removal.before.s : node_a(s) = removal.node
    /\ \E s \in removal.before.s : node_b(s) = removal.node
    /\ lattice = removal.after

\* Every active spring of lattice L has both endpoints active.
EndpointsActive(L) == \A s \in L.s : node_a(s) \in L.n /\ node_b(s) \in L.n

InRun == pc \in {"loop", "batch", "final", "done"}

\* C12: at every point where the equilibrium solve is invoked during run (main
\* loop, FEM-validated removal, halving fallback, final check) and when run
\* returns, every active spring has both endpoints active.
ActiveSpringsHaveActiveEndpoints ==
    InRun => /\ EndpointsActive(lattice)
             /\ \A L \in okSet \cup badSet : EndpointsActive(L)

\* A FEM-validated removal was undone by _restore_node on a lattice with an
\* inactive node, after its solve failed.
ActiveSpringsWitness ==
    /\ pc = "batch"
    /\ batch.kind = "fallback"
    /\ batch.fem_attempts > 0
    /\ batch.removed = 0
    /\ activeN # Nodes
    /\ lattice = [n |-> batch.n0, s |-> batch.s0]
    /\ Cardinality(badSet) = MaxUnsolvable + MaxRejected

\* C13: the progress fractions passed to on_progress during one run start at 0.0,
\* stay within [0, 1] and never decrease, also across iterations in which a
\* snapshot rollback re-activated nodes.
ProgressStartsAtZeroNeverDecreases ==
    [][ /\ (pc = "setup" /\ pc' # "setup") => max_reported_progress' = 0
        /\ pc # "setup" =>
              /\ max_reported_progress' >= max_reported_progress
              /\ max_reported_progress' >= 0
              /\ max_reported_progress' <= ProgressUnits(target_nodes) ]_vars

\* After a rollback and a fallback removal, the fraction reported is above the
\* fraction the current active count alone would give.
ProgressWitness ==
    /\ pc = "loop"
    /\ snapshot = None
    /\ badSet # {}
    /\ n_active = Count
    /\ Count < Cardinality(startN)
    /\ max_reported_progress > Progress(Count, target_nodes)

\* C14: for a lattice with at least one support, run returns normally: an
\* unsolvable equilibrium system, a rejected candidate and stagnation never make an
\* exception or assertion failure escape run; remove_node and can_remove_node are
\* never invoked on an inactive node, and the assertion of solve_structure holds.
RunNeverRaisesWithSupport ==
    Supports(startN) # {} => (~ raised /\ pc # "raised")

\* A run on a supported lattice met an unsolvable system, then three batches in a
\* row found no removable candidate, and run returned.
RunNeverRaisesWitness ==
    /\ Returned
    /\ Supports(startN) # {}
    /\ badSet # {}
    /\ stop_reason = "stagnation"
    /\ ~ raised

RunNeverActivatesBeyondStart ==
    (InRun \/ pc = "raised") => (activeN \subseteq startN /\ activeS \subseteq startS)

\* On a start lattice with an inactive node, a FEM-validated removal was undone
\* by _restore_node after a snapshot rollback.
RunNeverActivatesWitness ==
    /\ pc = "batch"
    /\ batch.kind = "fallback"
    /\ batch.fem_attempts > 0
    /\ batch.removed = 0
    /\ startN # Nodes
    /\ lattice = [n |-> batch.n0, s |-> batch.s0]
    /\ \E n \in batch.visited : (Nodes \ startN) \cap { Other(s, n) : s \in SpringsAt[n] } # {}

\* C17: the history returned by run holds the total strain energy after every
\* successful equilibrium solve performed during the run, one entry per solve.
HistoryHoldsEverySolve == Returned => energy_history = solves

\* The last call of client code returned and nothing has happened since.
ClientReturned(kind) == pc = "client" /\ batch # None /\ batch.kind = kind

\* C18: optimization_step returns the id of the node it removed, or None when no
\* node could be removed.
StepReturnsRemovedNodeId ==
    ClientReturned("step") =>
        IF ret = None THEN activeN = batch.n0
        ELSE ret.value \in batch.n0 \ activeN

\* C19: one call of optimization_batch deactivates at most batch_size nodes, for
\* every combination of validate_fem, fast_mode and use_symmetry.
BatchRemovesAtMostBatchSize ==
    ClientReturned("client") => Cardinality(batch.n0 \ activeN) <= batch.batch_size

\* C20: a structure written by IOHandler.save or to_json_bytes and read back by
\* load or load_from_bytes has the same width, height and material, the same
\* active flag, supports and force on every node id and the same active flag and
\* stiffness on every spring id, whatever the order of the records in the file.
SaveLoadRoundTrip == s_loaded # None => s_loaded = structure

\* The position of node b of a built grid relative to node a.
Offset(w, a, b) == << (b % w) - (a % w), (b \div w) - (a \div w) >>

\* C21: Structure(w, h) with w, h >= 2 creates w * h active nodes with
\* id = y * w + x and exactly h(w-1) + w(h-1) + 2(w-1)(h-1) active springs with
\* ids 0 .. count-1, each joining two distinct nodes of which the second is the
\* right, lower, lower-right or lower-left neighbour of the first; a width or
\* height below 2 is rejected at construction.
GridHasAllNodesAndSprings ==
    pc = "grid" =>
      /\ raised => (dims.width < 2 \/ dims.height < 2)
      /\ built # None =>
           LET w == built.width
               h == built.height
           IN  /\ w = dims.width /\ h = dims.height
               /\ w >= 2 /\ h >= 2
               /\ Len(built.nodes) = w * h
               /\ \A y \in 0 .. (h - 1) : \A x \in 0 .. (w - 1) :
                    /\ built.nodes[y * w + x + 1].id = y * w + x
                    /\ built.nodes[y * w + x + 1].x = x
                    /\ built.nodes[y * w + x + 1].y = y
                    /\ built.nodes[y * w + x + 1].active
               /\ Len(built.springs) = h * (w - 1) + w * (h - 1) + 2 * (w - 1) * (h - 1)
               /\ \A i \in 1 .. Len(built.springs) :
                    /\ built.springs[i].id = i - 1
                    /\ built.springs[i].active
                    /\ built.springs[i].node_a \in 0 .. (w * h - 1)
                    /\ built.springs[i].node_b \in 0 .. (w * h - 1)
                    /\ built.springs[i].node_a # built.springs[i].node_b
                    /\ Offset(w, built.springs[i].node_a, built.springs[i].node_b)
                         \in { << 1, 0 >>, << 0, 1 >>, << 1, 1 >>, << 0 - 1, 1 >> }

\* A grid that is not square and has inner cells was built.
GridWitness ==
    /\ pc = "grid"
    /\ built # None
    /\ built.width = 4
    /\ built.height = 3
    /\ Len(built.springs) = 29

Asked(fn) == query # None /\ query.fn = fn

\* C22: the global stiffness matrix produced by assemble_global_K is symmetric
\* for every set of active springs: entry (r, c) equals entry (c, r).
GlobalKSymmetric ==
    Asked("assemble_global_K") =>
        \A r \in Dofs : \A c \in Dofs : query.result[r][c] = query.result[c][r]

\* A matrix was assembled for a lattice with an inactive node, a material other
\* than steel and a diagonal spring with a stiffness set by hand; it has non-zero
\* entries off the diagonal and only zeros in the rows of the inactive node.
GlobalKWitness ==
    /\ Asked("assemble_global_K")
    /\ activeN # Nodes
    /\ material # defaults[1]
    /\ \E s \in activeS : k[s] # "None" /\ Dir(s)[1] # 0 /\ Dir(s)[2] # 0
    /\ \E r \in Dofs : \E c \in Dofs : r # c /\ query.result[r][c] # << 0, 0 >>
    /\ \A n \in Nodes \ activeN : \A c \in Dofs : query.result[DofX(n)][c] = << 0, 0 >>

\* C23: for a lattice that is connected and has load paths when run_fast (run
\* with fast_mode = True) starts, is_connected and has_load_paths both hold when
\* it returns: protecting the articulation points computed once at the start of
\* each batch keeps the lattice connected through all removals of that batch.
FastRunKeepsConnectedWithLoadPaths ==
    (/\ Returned
     /\ fast_mode
     /\ is_connected(startN, startS)
     /\ has_load_paths(startN, startS))
    => (is_connected(activeN, activeS) /\ has_load_paths(activeN, activeS))

\* C24: in run, when the solve after a batch is unsolvable, the active flags are
\* first restored to exactly the snapshot taken before that batch and only then
\* the fallback starts, on that lattice: in standard mode one FEM-validated
\* optimization_batch with batch size 1, in fast mode the halving search.  If the
\* fallback removes nothing, run leaves the loop with the lattice equal to that
\* snapshot and returns it unchanged.
PostBatchFailureRestoresSnapshot ==
    [][/\ (pc = "loop" /\ pc' = "batch" /\ batch'.kind # "main")
            => /\ snapshot # None
               /\ lattice' = [n |-> snapshot.n, s |-> snapshot.s]
               /\ batch'.n0 = snapshot.n
               /\ batch'.s0 = snapshot.s
               /\ batch'.removed = 0
               /\ IF fast_mode
                  THEN /\ batch'.kind = "halving"
                       /\ halving' # None
                       /\ halving'.snap = [n |-> snapshot.n, s |-> snapshot.s]
                  ELSE /\ batch'.kind = "fallback"
                       /\ batch'.batch_size = 1
                       /\ batch'.validate_fem
                       /\ halving' = None
       /\ (pc = "batch" /\ batch.kind # "main" /\ pc' = "final")
            => lattice' = [n |-> batch.n0, s |-> batch.s0]
       /\ (pc = "final" /\ stop_reason = "unsolvable" /\ pc' = "done")
            => lattice' = lattice]_vars

\* run returned after a fallback that removed nothing: the lattice that failed to
\* solve is a proper sub-lattice of the returned one.
PostBatchFailureWitness ==
    /\ Returned
    /\ stop_reason = "unsolvable"
    /\ lattice \in okSet
    /\ \E B \in badSet : B.n # activeN /\ B.n \subseteq activeN /\ B.s \subseteq activeS

\* C25: _halving_fallback makes at most 6 attempts; the first batch size is
\* min(20, remaining) and each further one is the previous one halved, rounded
\* down and at least 1, after an attempt that removed nothing or whose lattice
\* does not solve.  It returns a positive count only if the lattice after that
\* attempt's removals solves, and otherwise returns 0 with the active flags of
\* all nodes and springs as they were at entry.
HalvingFallbackContract ==
    [][/\ (halving = None /\ halving' # None)
            => /\ halving'.attempt = 0
               /\ halving'.batch_size =
                      (IF halving'.remaining < 20 THEN halving'.remaining ELSE 20)
               /\ batch'.batch_size = halving'.batch_size
               /\ halving'.snap = lattice
               /\ lattice' = lattice
       /\ (halving # None /\ halving' # None /\ halving'.attempt # halving.attempt)
            => /\ halving'.attempt = halving.attempt + 1
               /\ halving'.attempt < 6
               /\ batch.removed = 0 \/ lattice \in badSet'
               /\ halving'.batch_size =
                      (IF halving.batch_size >= 2 THEN halving.batch_size \div 2 ELSE 1)
               /\ batch'.batch_size = halving'.batch_size
               /\ lattice' = halving.snap
       /\ (halving # None /\ pc = "batch" /\ pc' = "client")
            => /\ ret' # None
               /\ ret'.value >= 0
               /\ ret'.value > 0
                    => /\ ret'.value = batch.removed
                       /\ lattice' = lattice
                       /\ lattice' \in okSet'
               /\ ret'.value = 0 => lattice' = halving.snap]_vars

\* _halving_fallback was called with remaining above 20, a solve failed and the
\* sixth attempt, with batch size 1, failed as well: 0 was returned.
HalvingFallbackWitness ==
    /\ pc = "client"
    /\ ret = [value |-> 0]
    /\ halving # None
    /\ halving.remaining > 20
    /\ halving.attempt = 5
    /\ halving.batch_size = 1
    /\ badSet # {}
    /\ lattice = halving.snap

\* A step of optimization_batch with validate_fem whose validation solve did not
\* succeed and did not raise: the attempt is counted and no lattice joins okSet.
ValidationFailedStep ==
    /\ pc = "batch"
    /\ pc' = "batch"
    /\ batch.validate_fem
    /\ batch'.fem_attempts = batch.fem_attempts + 1
    /\ okSet' = okSet

\* What C26 states about the lattice and the count after a failed validation: the
\* flags are those just before the candidate (earlier removals of the batch stay),
\* and the undone nodes are neither counted nor marked as processed.
UndoneExactly ==
    /\ lattice' = lattice
    /\ batch'.removed = batch.removed
    /\ batch'.processed = batch.processed
    /\ \E B \in badSet' : B.n # activeN /\ B.n \subseteq activeN /\ B.s \subseteq activeS

\* C26 as stated: in optimization_batch with validate_fem, when the solve after a
\* candidate's removal is unsolvable, the node and its mirror are re-activated
\* with exactly the springs active before, earlier removals stay, the undone nodes
\* are not counted, and the walk continues with the next candidate.
UndoneRemovalWalkContinues ==
    [][ValidationFailedStep => (UndoneExactly /\ ~ batch'.stopped)]_vars

\* C26 amended: as above, but the walk continues only while max_fem_attempts is 0
\* or more than the number of validation solves made so far; when that limit is
\* reached the batch ends after the undo.
UndoneRemovalWalkContinuesWithinLimit ==
    [][ValidationFailedStep
         => /\ UndoneExactly
            /\ batch'.stopped
                 <=> (0 < batch.max_fem_attempts
                      /\ batch.max_fem_attempts <= batch'.fem_attempts)]_vars

\* After an accepted removal, a later candidate and its mirror were removed, the
\* validation solve failed, both are active again and the walk goes on.
UndoneRemovalWitness ==
    /\ pc = "batch"
    /\ batch.validate_fem
    /\ batch.use_symmetry
    /\ batch.removed > 0
    /\ batch.fem_attempts >= 2
    /\ ~ batch.stopped
    /\ \E B \in badSet : B.n \subseteq activeN /\ Cardinality(activeN \ B.n) = 2

\* The lattice with node_id and its incident active springs deactivated.
Without(L, node_id) ==
    [n |-> L.n \ {node_id}, s |-> { s \in L.s : ~ Incident(s, node_id) }]

\* C27: can_remove_node(n) on an active node n returns true exactly when
\* neighbors_stable_after_removal(n) holds and the lattice with n and its incident
\* active springs deactivated is connected and has load paths; when the stability
\* check fails it returns false, no flag was modified when it returns and nothing
\* else was evaluated; has_load_paths is evaluated only on the speculative state
\* and only when that state is connected.
CanRemoveNodeIffStableConnectedLoadPaths ==
    \A i \in 1 .. Len(calls) :
        LET c == calls[i]
            stable == neighbors_stable_after_removal(c.before.n, c.before.s, c.node)
            spec == Without(c.before, c.node)
        IN  c.node \in c.before.n
            => /\ ~ c.raised
               /\ c.result <=> (/\ stable
                                /\ is_connected(spec.n, spec.s)
                                /\ has_load_paths(spec.n, spec.s))
               /\ ~ stable
                    => /\ c.result = FALSE
                       /\ c.after = c.before
                       /\ \A j \in 1 .. Len(c.evaluated) : c.evaluated[j].on = c.before
               /\ \A j \in 1 .. Len(c.evaluated) :
                    c.evaluated[j].fn = "has_load_paths"
                    => /\ c.evaluated[j].on = spec
                       /\ is_connected(spec.n, spec.s)

\* Two calls on active nodes: the first passed the stability check and found the
\* speculative state disconnected (has_load_paths was not evaluated), the second
\* answered false at the stability check.
CanRemoveNodeIffWitness ==
    /\ Len(calls) = 2
    /\ calls[1].node \in calls[1].before.n
    /\ Len(calls[1].evaluated) = 2
    /\ calls[1].result = FALSE
    /\ calls[2].node \in calls[2].before.n
    /\ Len(calls[2].evaluated) = 1
    /\ calls[2].result = FALSE

\* The active springs at node nid that are not incident to node_id.
Kept(nid, node_id) == { s \in SpringsAt[nid] \cap activeS : ~ Incident(s, node_id) }

\* C28: neighbors_stable_after_removal(n) returns true exactly when every active
\* node joined to n by an active spring is fully fixed (fix_x and fix_y) or keeps,
\* among its active springs not incident to n, at least two that are not parallel
\* to each other; a neighbour with one fixed DOF is treated like a free one.
NeighborsStableIffTwoDirections ==
    Asked("neighbors_stable_after_removal") =>
        (query.result
           <=> \A nid \in activeN :
                  (\E s \in activeS : Incident(s, query.node) /\ Incident(s, nid)
                                      /\ nid # query.node)
                  => \/ fix_x[nid] /\ fix_y[nid]
                     \/ \E s \in Kept(nid, query.node), u \in Kept(nid, query.node) :
                            ~ Parallel(s, u))

\* The answer was false because of a roller neighbour left without two springs of
\* different directions, every other neighbour keeping two directions.
NeighborsStableWitness ==
    /\ Asked("neighbors_stable_after_removal")
    /\ query.node \in activeN
    /\ query.result = FALSE
    /\ \E nid \in Adj(activeS, query.node) :
          /\ fix_y[nid] /\ ~ fix_x[nid]
          /\ Kept(nid, query.node) # {}
          /\ \A s \in Kept(nid, query.node), u \in Kept(nid, query.node) : Parallel(s, u)
          /\ \A m \in Adj(activeS, query.node) \ {nid} :
                \E s \in Kept(m, query.node), u \in Kept(m, query.node) : ~ Parallel(s, u)

\* A set of active nodes that no active spring leaves.
Closed(S) ==
    \A s \in activeS : (node_a(s) \in S) <=> (node_b(s) \in S)

\* Node n is joined by a path of active springs to an active node with a fixed
\* DOF: every closed set of active nodes that holds n holds such a node.
JoinedToSupport(n) ==
    \A S \in SUBSET activeN :
        (n \in S /\ Closed(S)) => \E m \in S : fix_x[m] \/ fix_y[m]

\* The active nodes and springs form one component: no closed set of active nodes
\* other than the empty one and all of them.
OneComponent ==
    \A S \in SUBSET activeN : Closed(S) => (S = {} \/ S = activeN)

\* C29: has_load_paths returns false whenever no active node has a fixed DOF, and
\* otherwise true exactly when every active node with a non-zero force is joined
\* by a path of active springs to an active node with a fixed DOF; is_connected
\* returns true exactly when the active nodes and springs form one connected
\* component, and true for at most one active node.
LoadPathsAndConnectedCharacterised ==
    /\ Asked("has_load_paths") =>
          (query.result
             <=> /\ \E m \in activeN : fix_x[m] \/ fix_y[m]
                 /\ \A n \in activeN : loaded[n] => JoinedToSupport(n))
    /\ Asked("is_connected") =>
          (query.result <=> (Cardinality(activeN) <= 1 \/ OneComponent))

\* has_load_paths answered false on a lattice with an active support and a loaded
\* node that is cut off from it.
LoadPathsWitness ==
    /\ Asked("has_load_paths")
    /\ query.result = FALSE
    /\ \E m \in activeN : fix_x[m] \/ fix_y[m]
    /\ \E n \in activeN : loaded[n] /\ SpringsAt[n] \cap activeS # {}
    /\ ~ OneComponent

\* C30: for a lattice that starts with at least target_nodes = max(2,
\* floor(total * f)) active nodes, the active node count never drops below
\* target_nodes during or after run: the batch size of each iteration is at least
\* 1 and at most (active - target), and no batch, mirror removal or cleanup pass
\* takes the count below the target.
ActiveNeverBelowTarget ==
    (pc \in {"loop", "batch", "final", "done"} /\ Cardinality(startN) >= target_nodes)
    => /\ Count >= target_nodes
       /\ (pc = "batch" /\ batch.kind = "main")
            => /\ batch.batch_size >= 1
               /\ batch.batch_size <= Cardinality(batch.n0) - target_nodes

\* C31: run stops as soon as three consecutive batches have removed no node and
\* never attempts a fourth; the consecutive-failure counter is reset to 0 by any
\* batch that removes at least one node, and a batch that removes nothing leaves
\* the active flags of all nodes and springs as they were when it started.
StopsAfterThreeEmptyBatches ==
    [][/\ (pc = "loop" /\ pc' = "batch" /\ batch'.kind = "main")
            => consecutive_failures < 3
       /\ (pc = "batch" /\ batch.kind = "main" /\ pc' \in {"loop", "final"})
            => IF batch.removed = 0
               THEN /\ consecutive_failures' = consecutive_failures + 1
                    /\ lattice = [n |-> batch.n0, s |-> batch.s0]
                    /\ lattice' = lattice
                    /\ pc' = (IF consecutive_failures' >= 3 THEN "final" ELSE "loop")
               ELSE /\ consecutive_failures' = 0
                    /\ pc' = "loop"]_vars

\* run returned after three batches in a row removed nothing from a lattice that
\* an earlier batch had thinned.
StopsAfterThreeWitness ==
    /\ Returned
    /\ stop_reason = "stagnation"
    /\ consecutive_failures = 3
    /\ activeN # startN

\* C32: with a stress-ratio limit set and a reference stress recorded, in an
\* iteration whose solved maximum stress exceeds limit x reference run leaves the
\* loop before it takes a snapshot, selects candidates, removes a node or appends
\* to the energy history; the removals of earlier iterations are kept up to the
\* return of run.
StressGuardStopsBeforeRemoval ==
    [][/\ (stop_reason # "stress" /\ stop_reason' = "stress")
            => /\ stress_ref
               /\ pc = "loop"
               /\ pc' = "final"
               /\ lattice' = lattice
               /\ snapshot' = snapshot
               /\ batch' = None
               /\ energy_history' = energy_history
               /\ solves' = solves + 1
       /\ (stop_reason = "stress" /\ pc = "final" /\ pc' = "done")
            => /\ activeN' \subseteq activeN
               /\ activeS' \subseteq activeS
               /\ stop_reason' = "stress"]_vars

\* run returned because of the stress guard after an earlier iteration had
\* removed a node; that removal is still in place.
StressGuardWitness ==
    /\ Returned
    /\ stop_reason = "stress"
    /\ stress_ref
    /\ energy_history >= 1
    /\ activeN # startN

\* C33: with validate_fem and max_fem_attempts = k > 0, one call of
\* optimization_batch performs at most k FEM validation solves.
ValidationSolvesWithinLimit ==
    (batch # None /\ batch.validate_fem /\ batch.max_fem_attempts > 0)
    => batch.fem_attempts <= batch.max_fem_attempts

\* Node n has two active springs that are not parallel to each other.
TwoDirections(n) ==
    \E s \in SpringsAt[n] \cap activeS, u \in SpringsAt[n] \cap activeS : ~ Parallel(s, u)

\* C34: starting from a freshly built grid, at every batch boundary of run and
\* when run returns, in any mode, every active node that is not fully fixed has at
\* least two active springs whose directions are not all parallel.
NoNodeOnOneDirection ==
    (pc \in {"loop", "final", "done"} /\ startN = Nodes)
    => \A n \in activeN : (fix_x[n] /\ fix_y[n]) \/ TwoDirections(n)

\* run returned from a full grid after removing nodes with use_symmetry; a loaded
\* node and a free node are left with exactly two active springs each.
NoNodeOnOneDirectionWitness ==
    /\ Returned
    /\ startN = Nodes
    /\ use_symmetry
    /\ Cardinality(activeN) <= NodeCount - 2
    /\ \E n \in activeN : loaded[n] /\ Degree(activeS, n) = 2
    /\ \E n \in activeN : Free(n) /\ ~ loaded[n] /\ Degree(activeS, n) = 2

\* ------------------------------------- run on a lattice thinned by the client
MaxThinning == 3

MinThinning == 2

\* Structure.remove_node called by client code before run, with no validator
\* consulted: the lattice handed to run may hold nodes on a single spring.
ThinningRemove(node_id) ==
    /\ pc = "setup"
    /\ setupRemovals < MaxThinning
    /\ node_id \in activeN
    /\ \E L \in {remove_node(lattice, node_id)} :
           /\ activeN' = L.n
           /\ activeS' = L.s
    /\ setupRemovals' = setupRemovals + 1
    /\ UNCHANGED << stop_reason, bcVars, pureVars, apiVars, histVars, callVars, pc, paramVars, consecutive_failures, snapshot, n_active,
                    okSet, badSet, batch, halving, raised >>

\* The client removes nodes, at least MinThinning of them, and then calls run.
\* get_fixed_dofs counts the DOFs of an inactive node as fixed, so the assertion
\* of solve_structure 173 cannot fail on a thinned lattice and IterateAssert has
\* no step here.
ThinnedNext ==
    \/ \E n \in Nodes : ThinningRemove(n)
    \/ \E pct \in MassPercents, fast \in BOOLEAN, sym \in BOOLEAN, limit \in BOOLEAN :
          setupRemovals >= MinThinning /\ StartRun(pct, fast, sym, limit)
    \/ LoopExit
    \/ SolveFailStop
    \/ SolveFailFallback
    \/ SolveFailHalving
    \/ StressStop
    \/ StartMainBatch
    \/ BatchStep
    \/ MainBatchReturn
    \/ FallbackReturn
    \/ HalvingSuccess
    \/ HalvingRetry
    \/ HalvingGiveUp
    \/ FinalCheck

ThinnedSpec == Init /\ [][ThinnedNext]_vars

\* A node that _cleanup_dangling removes: active, no fixed degree of freedom, no
\* force, at most one active spring.
Dangling(n) == n \in activeN /\ Free(n) /\ ~ loaded[n] /\ Degree(activeS, n) <= 1

\* C35: when run returns, no active node is free, unloaded and on at most one
\* active spring; the cleanup repeats its pass until one removes nothing.
NoDanglingNodeAtReturn ==
    Returned => \A n \in Nodes : ~ Dangling(n)

\* run returned after its first solve failed, so that only the cleanup changed
\* the lattice, and the cleanup removed a node that had two springs at the start:
\* a node only a second pass could remove.
NoDanglingNodeWitness ==
    /\ Returned
    /\ energy_history = 0
    /\ \E m \in startN \ activeN : Degree(startS, m) >= 2

\* C36 as stated: solve_structure checks for supports before it assembles, so a
\* call that is rejected has executed no assembly step.
RejectedBeforeAssembly ==
    (pc = "solver" /\ sv.pc = "rejected") => sv.assembled = << >>

\* C36, amended: solve_structure assembles K_g and F first and checks
\* get_fixed_dofs after that and before solve: a rejected call has executed both
\* assembly steps, and solve is entered only with a fixed DOF.
RejectedAfterAssemblyBeforeSolve ==
    /\ (pc = "solver" /\ sv.pc = "rejected")
       => sv.assembled = << "K_g", "F" >> /\ get_fixed_dofs(activeN) = {}
    /\ SolveEntered => sv.assembled = << "K_g", "F" >> /\ sv.fixed # {}

\* solve_structure was called on a lattice without any fixed DOF and rejected it.
RejectedAfterAssemblyWitness ==
    /\ pc = "solver"
    /\ sv.pc = "rejected"
    /\ Supports(activeN) = {}

\* The set an of nodes is mirror-symmetric about the vertical centre axis.
MirrorSymmetric(an) == \A n \in Nodes : n \in an <=> Mirror(n) \in an

\* The lattice run was called on had mirror-symmetric active flags, supports and
\* loads.
SymmetricStart ==
    /\ MirrorSymmetric(startN)
    /\ \A n \in Nodes :
          /\ fix_x[n] = fix_x[Mirror(n)]
          /\ fix_y[n] = fix_y[Mirror(n)]
          /\ loaded[n] = loaded[Mirror(n)]

BatchReturnsRemovedCount ==
    ClientReturned("client") =>
        /\ ret.value = Cardinality(batch.n0 \ activeN)
        /\ ret.value = 0 <=> (activeN = batch.n0 /\ activeS = batch.s0)

\* A call with symmetry and validation returned 2 after more than one validation
\* solve: one removal was undone, and a node was removed together with its mirror.
BatchReturnsRemovedCountWitness ==
    /\ ClientReturned("client")
    /\ batch.use_symmetry
    /\ batch.validate_fem
    /\ batch.fem_attempts >= 2
    /\ ret.value = 2
    /\ \E n \in batch.n0 \ activeN : Mirror(n) # n /\ Mirror(n) \notin activeN

\* C39: after any sequence of remove_node, can_remove_node, optimization_batch
\* with its undo, _restore_snapshot and _cleanup_dangling on a freshly built grid,
\* a spring is active exactly when both of its endpoints are active; hence
\* _restore_node after remove_node of any active node gives back the lattice as
\* it was, with no spring more and none less.
SpringActiveIffEndpointsActive ==
    /\ \A s \in Springs : s \in activeS <=> (node_a(s) \in activeN /\ node_b(s) \in activeN)
    /\ \A n \in activeN : _restore_node(remove_node(lattice, n), n) = lattice

\* run, called on a lattice thinned by remove_node, has undone a validated
\* removal in its fallback batch after a snapshot was restored: the lattice is
\* again the one the batch started on, and it still has active springs.
SpringActiveIffWitness ==
    /\ pc = "batch"
    /\ batch.kind = "fallback"
    /\ batch.fem_attempts > 0
    /\ batch.removed = 0
    /\ setupRemovals >= MinThinning
    /\ lattice = [n |-> batch.n0, s |-> batch.s0]
    /\ activeS # {}
====
